---- MODULE Spec2Model ----
(***************************************************************************)
(* The piwheels master: the worker protocol (slave_driver), the file       *)
(* transfer protocol (build_catcher), the supervisor's control commands,   *)
(* the builds and indexes queues and the index writer, modelled from       *)
(* src/piwheels/master/__init__.py.                                        *)
(*                                                                         *)
(* Byte offsets are kept as integers; files are made of blocks of          *)
(* Block = chunk_size / 2 bytes, so that a chunk_size window can cover a   *)
(* range partly.  A block's content is one value of Data (0 is the zero    *)
(* fill that truncate() leaves).                                           *)
(***************************************************************************)
EXTENDS Integers, Sequences, FiniteSets, TLC

\* ---------------------------------------------------------------- bounds
MaxSlaves == 2
MaxBuilds == 1
MaxIndexes == 1

\* ------------------------------------------------------ program constants
chunk_size == 65536
pipeline_size == 10

Block == chunk_size \div 2
Addresses == {"a1", "a2"}
\* The workers that take and report builds; the others only connect and leave
Builders == {"a1"}
Packages == {"foo"}
Versions == {"1.0"}
Filenames == {"w.whl"}
Data == {0, 1}
FileSizes == {Block}

None == <<>>
Some(x) == <<x>>

\* Identities of TransferState objects.  An address keeps at most one object
\* alive through its SlaveState and one through self.transfers.
Tids == 1..(2 * Cardinality(Addresses))

\* ------------------------------------------------------------- ranges
\* A Python range(start, stop) is the pair <<start, stop>>.
range(start, stop) == <<start, stop>>
rlen(r) == IF r[2] > r[1] THEN r[2] - r[1] ELSE 0
Max(a, b) == IF a >= b THEN a ELSE b
Min(a, b) == IF a <= b THEN a ELSE b

\* ranges.intersect(r1, r2): the range common to both (empty when disjoint)
intersect(r1, r2) == range(Max(r1[1], r2[1]), Min(r1[2], r2[2]))

\* ranges.exclude(ranges, ex): each range of the list with ex taken out of
\* it, in order; what is left of a range on either side of ex is kept when
\* it is non-empty
RECURSIVE exclude(_, _)
exclude(ranges, ex) ==
    IF ranges = <<>> THEN <<>>
    ELSE LET r == Head(ranges)
             left == range(r[1], Min(r[2], ex[1]))
             right == range(Max(r[1], ex[2]), r[2])
             kept == IF rlen(ex) = 0 \/ rlen(intersect(r, ex)) = 0
                     THEN <<r>>
                     ELSE (IF rlen(left) > 0 THEN <<left>> ELSE <<>>)
                          \o (IF rlen(right) > 0 THEN <<right>> ELSE <<>>)
         IN kept \o exclude(Tail(ranges), ex)

\* hashlib.sha256(...).hexdigest(): collision free, one digest per content
sha256(content) == <<"sha256", content>>

\* (mutant) the initial credit is not capped by pipeline_size
TransferState_nomin(filesize) ==
    [filesize |-> filesize,
     credit   |-> Max(1, filesize \div chunk_size),
     offset   |-> 0,
     map      |-> <<range(0, filesize)>>,
     content  |-> [i \in 1..(filesize \div Block) |-> 0],
     file     |-> "open",
     path     |-> "temp"]

\* ------------------------------------------------------- TransferState
\* A TransferState object: the fields of __init__, the content of its
\* temporary file (one Data value per block), whether the file object is
\* open, and what became of the temporary path.
TransferState(filesize) ==
    [filesize |-> filesize,
     credit   |-> Max(1, Min(pipeline_size, filesize \div chunk_size)),
     offset   |-> 0,
     map      |-> <<range(0, filesize)>>,
     content  |-> [i \in 1..(filesize \div Block) |-> 0],
     file     |-> "open",
     path     |-> "temp"]

\* TransferState.done
done(t) == t.map = <<>>

\* (mutant) the window is returned instead of its intersection with the
\* missing range
RECURSIVE FetchScan_window(_, _, _)
FetchScan_window(map, i, fstart) ==
    IF i > Len(map) THEN [hit |-> FALSE, r |-> range(fstart, fstart)]
    ELSE LET result == intersect(map[i], range(fstart, fstart + chunk_size)) IN
         IF rlen(result) > 0
         THEN [hit |-> TRUE, r |-> range(fstart, fstart + chunk_size)]
         ELSE IF map[i][1] > fstart THEN FetchScan_window(map, i + 1, map[i][1])
         ELSE FetchScan_window(map, i + 1, fstart)

\* One pass of fetch()'s for loop over _map from element i on, with the
\* window starting at fstart: the first non-empty intersection, or a miss.
RECURSIVE FetchScan(_, _, _)
FetchScan(map, i, fstart) ==
    IF i > Len(map) THEN [hit |-> FALSE, r |-> range(fstart, fstart)]
    ELSE LET result == intersect(map[i], range(fstart, fstart + chunk_size)) IN
         IF rlen(result) > 0 THEN [hit |-> TRUE, r |-> result]
         ELSE IF map[i][1] > fstart THEN FetchScan(map, i + 1, map[i][1])
         ELSE FetchScan(map, i + 1, fstart)

\* TransferState.fetch: the object afterwards, the range returned (None
\* when nothing is returned) and whether the call loops for ever.  After a
\* pass that misses, the window restarts at _map[0].start; a miss of that
\* pass repeats itself without end.
fetch(t) ==
    IF t.credit = 0 THEN [t |-> t, result |-> None, hang |-> FALSE]
    ELSE LET t1 == [t EXCEPT !.credit = t.credit - 1]
             pass1 == FetchScan(t.map, 1, t.offset)
         IN IF pass1.hit
            THEN [t |-> [t1 EXCEPT !.offset = pass1.r[2]],
                  result |-> Some(pass1.r), hang |-> FALSE]
            ELSE IF t.map = <<>>
            THEN [t |-> t1, result |-> None, hang |-> FALSE]
            ELSE LET pass2 == FetchScan(t.map, 1, t.map[1][1]) IN
                 IF pass2.hit
                 THEN [t |-> [t1 EXCEPT !.offset = pass2.r[2]],
                       result |-> Some(pass2.r), hang |-> FALSE]
                 ELSE [t |-> t1, result |-> None, hang |-> TRUE]

\* (mutant) no seek: data is written at the end of the file
WriteAt_append(content, offset, data) == content \o data

\* file.seek(offset); file.write(data): the content with data written from
\* block offset \div Block on; a write past the end lengthens the file.
WriteAt(content, offset, data) ==
    LET first == offset \div Block
        newlen == Max(Len(content), first + Len(data))
    IN [i \in 1..newlen |->
          IF i > first /\ i <= first + Len(data) THEN data[i - first]
          ELSE IF i <= Len(content) THEN content[i]
          ELSE 0]

\* (mutant) the range written is not taken out of _map
chunk_nomap(t, offset, data) ==
    [t EXCEPT !.content = WriteAt(t.content, offset, data),
              !.credit = t.credit + 1]

\* (mutant) a CHUNK grants no credit
chunk_nocredit(t, offset, data) ==
    LET map == exclude(t.map, range(offset, offset + Len(data) * Block)) IN
    [t EXCEPT !.content = WriteAt(t.content, offset, data),
              !.map = map,
              !.credit = IF map = <<>> THEN 0 ELSE t.credit]

\* TransferState.chunk on an open file
chunk(t, offset, data) ==
    LET map == exclude(t.map, range(offset, offset + Len(data) * Block)) IN
    [t EXCEPT !.content = WriteAt(t.content, offset, data),
              !.map = map,
              !.credit = IF map = <<>> THEN 0 ELSE t.credit + 1]

\* (mutant) the credit is left as it is
reset_credit_keep(t) == t

\* TransferState.reset_credit
reset_credit(t) ==
    IF t.credit = 0 THEN [t EXCEPT !.credit = pipeline_size] ELSE t

\* (mutant) the size of the file is compared, not its digest
HashMatches_size(t, build) == Len(t.content) * Block = build.filesize

\* The comparison verify() makes
HashMatches(t, build) == sha256(t.content) = build.filehash

\* TransferState.verify on an open file: the file is closed; on a match
\* the temporary path is renamed to <package>/<filename>, else unlinked.
verify(t, build) ==
    IF HashMatches(t, build)
    THEN [t |-> [t EXCEPT !.file = "closed", !.path = "renamed"], ok |-> TRUE]
    ELSE [t |-> [t EXCEPT !.file = "closed", !.path = "unlinked"], ok |-> FALSE]

\* A frame sent on the file socket: FETCH|start|length or DONE
Frame(tag, start, length) == [tag |-> tag, start |-> start, length |-> length]

\* The loop of build_catcher that issues FETCH frames while fetch() returns
\* a range: the object afterwards, the frames sent, and whether it hangs.
\* f is the value of one fetch() call.
RECURSIVE FetchLoop(_, _)
FetchLoop(t, frames) ==
    CHOOSE r \in
        {IF f.hang THEN [t |-> f.t, frames |-> frames, hang |-> TRUE]
         ELSE IF f.result = None
         THEN [t |-> f.t, frames |-> frames, hang |-> FALSE]
         ELSE FetchLoop(f.t, Append(frames, Frame("FETCH", f.result[1][1],
                                                  rlen(f.result[1])))) :
            f \in {fetch(t)}} : TRUE

\* ---------------------------------------------------------- variables
VARIABLES
    slaves,     \* self.slaves: address -> SlaveState
    counter,    \* SlaveState.counter
    paused,     \* self.paused
    reply,      \* slave_driver's local variable reply, kept across iterations
    sd,         \* the slave_driver thread: "running", "crashed" or "done"
    builds,     \* the builds queue (queue_stuffer -> slave_driver)
    indexes,    \* the indexes queue (slave_driver -> index_scribbler)
    heap,       \* the live TransferState objects, by identity
    transfers,  \* self.transfers: address -> TransferState identity (0: None)
    bc,         \* the build_catcher thread: "running", "crashed", "hung" or
                \* "done"
    files,      \* the output tree: <<package, filename>> -> content
    packages,   \* index_scribbler's local set of known packages
    slaveOut,   \* replies sent on the worker socket by the last step
    statusOut,  \* status records pushed by the last step
    dbOut,      \* builds handed to db.log_build by the last step
    fileOut,    \* frames sent on the file socket by the last step
    indexOut,   \* index files rewritten by the last step
    last,       \* the message the last step handled
    main,       \* the supervisor: "polling", "killing", "draining", "quit" or
                \* "raised"
    ts,         \* a TransferState object driven method by method
    received,   \* the blocks of [0, filesize) that chunk() calls on ts wrote
    op,         \* the last method called on ts, its arguments and result
    unanswered, \* the FETCH frames sent and not yet answered by a CHUNK
    wr,         \* a writer of an index file, step by step
    target,     \* the files that the writers replace, as a reader finds them
    task,       \* where each of the other tasks is in its loop
    todo,       \* the items left in the for loops of web_scraper, queue_stuffer
    fin,        \* the supervisor's finally block, step by step
    package_cache   \* TheScribe.package_cache

vars == <<slaves, counter, paused, reply, sd, builds, indexes, heap, transfers,
          bc, files, packages, slaveOut, statusOut, dbOut, fileOut, indexOut,
          last, main, ts, received, op, unanswered, wr, target, task, todo,
          fin, package_cache>>

\* The variables of the TransferState driven on its own
tsvars == <<ts, received, op>>

\* The variables of the index writers
wvars == <<wr, target, package_cache>>

\* The variables of the tasks that are followed step by step
qvars == <<task, todo, fin>>

\* The tasks other than slave_driver and build_catcher, and those of them
\* that run a for loop inside the while loop
Tasks == {"web_scraper", "queue_stuffer", "big_brother", "index_scribbler"}
Loops == {"web_scraper", "queue_stuffer"}

\* The threads in the order main starts them, and in the order it joins them
StartOrder == <<"packages", "builds", "files", "status", "slave", "index">>
JoinOrder == <<"index", "slave", "status", "files", "builds", "packages">>

\* The finally block of main not yet entered: the size of self.slaves when
\* the loop over it began and the slave_ids it has visited, the waits of a
\* second made, the threads joined and whether the sockets are closed
NoFin == [size |-> 0, visited |-> {}, waits |-> 0, joined |-> <<>>, closed |-> FALSE]

\* The writers of index files: write_root_index and write_package_index of
\* the master ("index"), and AtomicReplaceFile of the_scribe ("atomic")
Kinds == {"index", "atomic"}

\* The value of wr when no file is being written
WriterIdle ==
    [kind |-> "", pc |-> "idle", content |-> <<>>, written |-> <<>>,
     disk |-> <<>>, exc |-> FALSE, temp |-> "none", raised |-> FALSE]

\* The value of op when no method has been called on ts
NoOp ==
    [name |-> "", offset |-> 0, data |-> <<>>, build |-> None, result |-> None,
     again |-> FALSE]

\* ---------------------------------------------------------- messages
\* The value of last after a step that handled no message of a worker
NoMessage == [task |-> "", address |-> "", tag |-> "", known |-> FALSE]

\* A message on the worker socket: its tag and, for BUILT, the fields of
\* the build it reports.
Msg(tag) ==
    [tag |-> tag, package |-> "", version |-> "", status |-> FALSE,
     filename |-> "", filesize |-> 0, filehash |-> sha256(<<>>)]

Contents(filesize) == [1..(filesize \div Block) -> Data]

BuiltMsgs ==
    {[tag |-> "BUILT", package |-> p, version |-> v, status |-> st,
      filename |-> fn, filesize |-> fs, filehash |-> sha256(c)] :
        p \in Packages, v \in Versions, st \in BOOLEAN, fn \in Filenames,
        fs \in FileSizes, c \in UNION {Contents(z) : z \in FileSizes}}

\* A reply on the worker socket
Reply(tag, slave_id, package, version) ==
    [tag |-> tag, slave_id |-> slave_id, package |-> package, version |-> version]
Unbound == Reply("", 0, "", "")
HELLO(slave_id) == Reply("HELLO", slave_id, "", "")
BUILD(package, version) == Reply("BUILD", 0, package, version)
SLEEP == Reply("SLEEP", 0, "", "")
SEND == Reply("SEND", 0, "", "")
DONE == Reply("DONE", 0, "", "")
BYE == Reply("BYE", 0, "", "")

\* ---------------------------------------------------------- SlaveState
\* BuildState(self._slave_id, *value[1:])
BuildState(slave_id, msg) ==
    [slave_id |-> slave_id, package |-> msg.package, version |-> msg.version,
     status |-> msg.status, filename |-> msg.filename,
     filesize |-> msg.filesize, filehash |-> msg.filehash]

\* (mutant) every SlaveState is given the slave_id 1
SlaveState_one(id) ==
    [slave_id |-> 1, reply |-> Unbound, build |-> None, transfer |-> 0,
     terminated |-> FALSE]

\* SlaveState.__init__ with SlaveState.counter already incremented to id
SlaveState(id) ==
    [slave_id |-> id, reply |-> Unbound, build |-> None, transfer |-> 0,
     terminated |-> FALSE]

\* SlaveState.kill
kill(slave) == [slave EXCEPT !.terminated = TRUE]

\* SlaveState.request setter
SetRequest(slave, msg) ==
    IF msg.tag = "BUILT"
    THEN [slave EXCEPT !.build = Some(BuildState(slave.slave_id, msg))]
    ELSE slave

\* SlaveState.reply setter raises AttributeError at self._build.filesize
ReplyRaises(slave, value) == value.tag = "SEND" /\ slave.build = None

\* (mutant) DONE forgets the build and keeps the transfer
SetReply_keep(slave, value, tid) ==
    IF ReplyRaises(slave, value) THEN [slave EXCEPT !.reply = value]
    ELSE IF value.tag = "SEND"
    THEN [slave EXCEPT !.reply = value, !.transfer = tid]
    ELSE IF value.tag = "DONE"
    THEN [slave EXCEPT !.reply = value, !.build = None]
    ELSE [slave EXCEPT !.reply = value]

\* (mutant) SEND keeps the TransferState that the slave has
SetReply_reuse(slave, value, tid) ==
    IF ReplyRaises(slave, value) THEN [slave EXCEPT !.reply = value]
    ELSE IF value.tag = "SEND"
    THEN [slave EXCEPT !.reply = value,
                       !.transfer = IF slave.transfer # 0 THEN slave.transfer
                                    ELSE tid]
    ELSE IF value.tag = "DONE"
    THEN [slave EXCEPT !.reply = value, !.build = None, !.transfer = 0]
    ELSE [slave EXCEPT !.reply = value]

\* SlaveState.reply setter; tid is the identity of the TransferState that a
\* SEND creates.  When it raises, _reply has been assigned already.
SetReply(slave, value, tid) ==
    IF ReplyRaises(slave, value) THEN [slave EXCEPT !.reply = value]
    ELSE IF value.tag = "SEND"
    THEN [slave EXCEPT !.reply = value, !.transfer = tid]
    ELSE IF value.tag = "DONE"
    THEN [slave EXCEPT !.reply = value, !.build = None, !.transfer = 0]
    ELSE [slave EXCEPT !.reply = value]

\* The status record the reply setter pushes
StatusRecord(slave, value) == [slave_id |-> slave.slave_id, reply |-> value]

\* ------------------------------------------------------------- objects
\* The objects still referenced from the SlaveStates sl or the transfer map
\* tr; Python frees the others
Collect(h, sl, tr) ==
    [t \in Tids |->
        IF \/ \E a \in DOMAIN sl : sl[a].transfer = t
           \/ \E a \in DOMAIN tr : tr[a] = t
        THEN h[t] ELSE None]

\* The identity of a TransferState made for the slave at address: the first
\* that no object has which is still referenced once this slave's reference
\* to its previous transfer is gone
NewTid(address) ==
    LET others == [a \in DOMAIN slaves \ {address} |-> slaves[a]]
        live == Collect(heap, others, transfers)
    IN CHOOSE t \in Tids : live[t] = None /\ \A u \in 1..(t - 1) : live[u] # None

\* -------------------------------------------------------- slave_driver
SlaveTags == {"HELLO", "BYE", "IDLE", "BUILT", "SENT", "PING"}
SlaveMsgs == {Msg(tag) : tag \in SlaveTags \ {"BUILT"}} \cup BuiltMsgs

\* (mutant) any first message is taken for HELLO
FirstMessageOk_any(msg) == TRUE

\* The test made on the first message of an address without a SlaveState
FirstMessageOk(msg) == msg.tag = "HELLO"

\* (mutant) the paused flag is not looked at
IdleReply_nopause(slave) ==
    IF slave.terminated THEN BYE
    ELSE IF builds # <<>> THEN BUILD(Head(builds)[1], Head(builds)[2])
    ELSE SLEEP

\* (mutant) the terminated flag is not looked at
IdleReply_noterm(slave) ==
    IF paused THEN SLEEP
    ELSE IF builds # <<>> THEN BUILD(Head(builds)[1], Head(builds)[2])
    ELSE SLEEP

\* The reply to IDLE
IdleReply(slave) ==
    IF slave.terminated THEN BYE
    ELSE IF paused THEN SLEEP
    ELSE IF builds # <<>> THEN BUILD(Head(builds)[1], Head(builds)[2])
    ELSE SLEEP

\* (mutant) SEND whatever the status of the build
BuiltReply_send(build) == SEND

\* The reply to BUILT
BuiltReply(build) == IF build.status THEN SEND ELSE DONE

\* (mutant) DONE whatever verify() returned
SentReply_done(ok) == DONE

\* The reply to SENT, given what verify() returned
SentReply(ok) == IF ok THEN DONE ELSE SEND

\* (mutant) the package is put on the queue whatever verify() returned
SentIndexPut_always(ok, build) == <<build.package>>

\* What is put on the indexes queue when SENT is handled
SentIndexPut(ok, build) == IF ok THEN <<build.package>> ELSE <<>>

\* The tags for which the if/elif chain assigns reply or leaves the
\* iteration; for any other tag the else branch only logs
TagHandled(tag) == tag \in {"HELLO", "BYE", "IDLE", "BUILT", "SENT"}

\* The if/elif chain of one iteration, for a slave whose request has been
\* set: how the iteration goes on ("continue", "reply" with a value newly
\* assigned, "stale" when reply is not assigned, "raise"), and its effects.
SlaveBranch(slave, msg) ==
    LET base == [kind |-> "reply", value |-> Unbound, del |-> FALSE,
                 pop |-> FALSE, log |-> <<>>, put |-> <<>>,
                 verified |-> FALSE, ok |-> FALSE]
    IN
    IF ~TagHandled(msg.tag) THEN [base EXCEPT !.kind = "stale"]
    ELSE IF msg.tag = "HELLO" THEN [base EXCEPT !.value = HELLO(slave.slave_id)]
    ELSE IF msg.tag = "BYE" THEN [base EXCEPT !.kind = "continue", !.del = TRUE]
    ELSE IF msg.tag = "IDLE"
    THEN [base EXCEPT !.value = IdleReply(slave),
                      !.pop = (IdleReply(slave).tag = "BUILD")]
    ELSE IF msg.tag = "BUILT"
    THEN [base EXCEPT !.value = BuiltReply(slave.build[1]),
                      !.log = <<slave.build[1]>>]
    ELSE \* SENT
    IF slave.transfer = 0 THEN [base EXCEPT !.kind = "continue"]
    ELSE IF heap[slave.transfer][1].file = "closed" \/ slave.build = None
    THEN [base EXCEPT !.kind = "raise"]
    ELSE LET v == verify(heap[slave.transfer][1], slave.build[1]) IN
         [base EXCEPT !.value = SentReply(v.ok),
                      !.put = SentIndexPut(v.ok, slave.build[1]),
                      !.verified = TRUE, !.ok = v.ok]

\* The output tree after verify() has renamed the file of transfer t
Committed(build, t) ==
    LET key == <<build.package, build.filename>> IN
    [k \in DOMAIN files \cup {key} |-> IF k = key THEN t.content ELSE files[k]]

\* One iteration of slave_driver's loop for the message msg from address
slave_driver(address, msg) ==
    /\ sd = "running" /\ main # "quit"
    /\ last' = [task |-> "slave_driver", address |-> address, tag |-> msg.tag,
                known |-> address \in DOMAIN slaves]
    /\ IF address \notin DOMAIN slaves /\ ~FirstMessageOk(msg)
       THEN \* logged, continue
            /\ slaveOut' = <<>> /\ statusOut' = <<>> /\ dbOut' = <<>>
            /\ UNCHANGED <<slaves, counter, reply, sd, builds, indexes, heap, files>>
       ELSE
       \E known \in {address \in DOMAIN slaves} :
       \E slave1 \in {SetRequest(IF known THEN slaves[address]
                                 ELSE SlaveState(counter + 1), msg)} :
       \E b \in {SlaveBranch(slave1, msg)} :
       \E value \in {IF b.kind = "stale" THEN reply ELSE b.value} :
       \E sets \in {b.kind \in {"reply", "stale"} /\ value # Unbound} :
       \E raises \in {\/ b.kind = "raise"
                      \/ b.kind \in {"reply", "stale"} /\ value = Unbound
                      \/ sets /\ ReplyRaises(slave1, value)} :
       \E creates \in {sets /\ value.tag = "SEND" /\ ~raises} :
       \E slave2 \in {IF sets THEN SetReply(slave1, value, NewTid(address)) ELSE slave1} :
       \E slaves2 \in {IF b.del
                       THEN [a \in DOMAIN slaves \ {address} |-> slaves[a]]
                       ELSE [a \in DOMAIN slaves \cup {address} |->
                               IF a = address THEN slave2 ELSE slaves[a]]} :
       \E heap1 \in {IF b.verified
                     THEN [heap EXCEPT ![slave1.transfer] =
                              Some(verify(heap[slave1.transfer][1], slave1.build[1]).t)]
                     ELSE heap} :
       \E heap2 \in {IF creates
                     THEN [Collect(heap1, slaves2, transfers)
                             EXCEPT ![NewTid(address)] =
                                 Some(TransferState(slave1.build[1].filesize))]
                     ELSE heap1} :
       /\ known \/ counter < MaxSlaves
       /\ Len(indexes) + Len(b.put) <= MaxIndexes
       /\ counter' = IF known THEN counter ELSE counter + 1
       /\ slaves' = slaves2
       /\ reply' = IF b.kind = "reply" THEN b.value ELSE reply
       /\ builds' = IF b.pop THEN Tail(builds) ELSE builds
       /\ dbOut' = b.log
       /\ indexes' = indexes \o b.put
       /\ files' = IF b.verified /\ b.ok
                   THEN Committed(slave1.build[1], heap[slave1.transfer][1])
                   ELSE files
       /\ heap' = Collect(heap2, slaves2, transfers)
       /\ sd' = IF raises THEN "crashed" ELSE "running"
       /\ slaveOut' = IF sets /\ ~raises
                      THEN <<[to |-> address, reply |-> value]>> ELSE <<>>
       /\ statusOut' = IF sets /\ ~raises
                       THEN <<StatusRecord(slave2, value)>> ELSE <<>>
    /\ fileOut' = <<>> /\ indexOut' = <<>>
    /\ UNCHANGED <<paused, transfers, bc, packages, main, tsvars, unanswered, wvars, qvars>>

\* -------------------------------------------------------- build_catcher
FileTags == {"HELLO", "CHUNK", "PING"}

\* A message on the file socket: HELLO|slave_id, CHUNK|offset|data
FileMsg(tag, slave_id, offset, data) ==
    [tag |-> tag, slave_id |-> slave_id, offset |-> offset, data |-> data]

FileMsgs ==
    {FileMsg("HELLO", n, 0, <<>>) : n \in 0..MaxSlaves}
    \cup {FileMsg("CHUNK", 0, o * Block, d) :
            o \in {0}, d \in [1..1 -> Data]}
    \cup {FileMsg("PING", 0, 0, <<>>)}

\* [slave for slave in self.slaves.values() if slave.slave_id == slave_id]
SlavesWithId(slave_id) ==
    {a \in DOMAIN slaves : slaves[a].slave_id = slave_id}

\* The transfer that a HELLO from an address without a transfer adopts
AdoptedTransfer(slave_id) ==
    slaves[CHOOSE a \in SlavesWithId(slave_id) : TRUE].transfer

\* Whether the transfer is finished after a CHUNK, so that DONE is sent
ChunkDone(t) == done(t)

\* One iteration of build_catcher's loop for the message msg from address
build_catcher(address, msg) ==
    /\ bc = "running" /\ main # "quit"
    /\ last' = [task |-> "build_catcher", address |-> address, tag |-> msg.tag,
                known |-> address \in DOMAIN transfers]
    /\ IF address \notin DOMAIN transfers
       THEN IF msg.tag # "HELLO" \/ SlavesWithId(msg.slave_id) = {}
            THEN \* CHUNK ignored, other tags and unknown slave_id logged
                 /\ fileOut' = <<>>
                 /\ UNCHANGED <<heap, transfers, bc>>
            ELSE LET tid == AdoptedTransfer(msg.slave_id) IN
                 /\ transfers' = [a \in DOMAIN transfers \cup {address} |->
                                    IF a = address THEN tid ELSE transfers[a]]
                 /\ IF tid = 0
                    THEN \* None.fetch() raises AttributeError
                         /\ bc' = "crashed"
                         /\ fileOut' = <<>>
                         /\ UNCHANGED heap
                    ELSE LET f == FetchLoop(heap[tid][1], <<>>) IN
                         /\ heap' = [heap EXCEPT ![tid] = Some(f.t)]
                         /\ fileOut' = f.frames
                         /\ bc' = IF f.hang THEN "hung" ELSE "running"
       ELSE LET tid == transfers[address]
                t0 == heap[tid][1]
            IN
            IF msg.tag = "CHUNK" /\ t0.file = "closed"
            THEN \* seek() on a closed file raises ValueError
                 /\ bc' = "crashed"
                 /\ fileOut' = <<>>
                 /\ UNCHANGED <<heap, transfers>>
            ELSE IF msg.tag = "CHUNK" /\ ChunkDone(chunk(t0, msg.offset, msg.data))
            THEN /\ transfers' = [a \in DOMAIN transfers \ {address} |-> transfers[a]]
                 /\ heap' = Collect([heap EXCEPT ![tid] =
                                        Some(chunk(t0, msg.offset, msg.data))],
                                    slaves, transfers')
                 /\ fileOut' = <<Frame("DONE", 0, 0)>>
                 /\ UNCHANGED bc
            ELSE LET t1 == IF msg.tag = "CHUNK" THEN chunk(t0, msg.offset, msg.data)
                           ELSE IF msg.tag = "HELLO" THEN reset_credit(t0)
                           ELSE t0
                     f == FetchLoop(t1, <<>>)
                 IN
                 /\ heap' = [heap EXCEPT ![tid] = Some(f.t)]
                 /\ fileOut' = f.frames
                 /\ bc' = IF f.hang THEN "hung" ELSE "running"
                 /\ UNCHANGED transfers
    /\ slaveOut' = <<>> /\ statusOut' = <<>> /\ dbOut' = <<>> /\ indexOut' = <<>>
    /\ UNCHANGED <<slaves, counter, paused, reply, sd, builds, indexes, files,
                   packages, main, tsvars, wvars, qvars>>

\* -------------------------------------------------------- queue_stuffer
\* One build_queue.send_json((package, version)); the send waits while the
\* queue is at its high-water mark
queue_stuffer(package, version) ==
    /\ main # "quit"
    /\ Len(builds) < MaxBuilds
    /\ builds' = Append(builds, <<package, version>>)
    /\ last' = NoMessage
    /\ slaveOut' = <<>> /\ statusOut' = <<>> /\ dbOut' = <<>>
    /\ fileOut' = <<>> /\ indexOut' = <<>>
    /\ UNCHANGED <<slaves, counter, paused, reply, sd, indexes, heap, transfers,
                   bc, files, packages, main, tsvars, unanswered, wvars, qvars>>

\* ------------------------------------------------------ index_scribbler
\* An index file rewritten: the root index, or the index of a package
IndexWrite(kind, package) == [kind |-> kind, package |-> package]

\* The test index_scribbler makes before rewriting the root index; the set
\* holds the package names received, as strings
IsNewPackage(package) == <<"str", package>> \notin packages

\* One iteration of index_scribbler's loop with a message on the queue
index_scribbler ==
    /\ main # "quit"
    /\ indexes # <<>>
    /\ LET package == Head(indexes) IN
       /\ indexes' = Tail(indexes)
       /\ packages' = packages \cup {<<"str", package>>}
       /\ indexOut' = (IF IsNewPackage(package)
                       THEN <<IndexWrite("root", "")>> ELSE <<>>)
                      \o <<IndexWrite("package", package)>>
    /\ last' = NoMessage
    /\ slaveOut' = <<>> /\ statusOut' = <<>> /\ dbOut' = <<>> /\ fileOut' = <<>>
    /\ UNCHANGED <<slaves, counter, paused, reply, sd, builds, heap, transfers,
                   bc, files, main, tsvars, unanswered, wvars, qvars>>

\* ----------------------------------------------------------- main
\* The supervisor handles a control message; what changes is given by the
\* caller, the rest is left alone.
CtrlFrame ==
    /\ last' = NoMessage
    /\ slaveOut' = <<>> /\ statusOut' = <<>> /\ dbOut' = <<>>
    /\ fileOut' = <<>> /\ indexOut' = <<>>
    /\ UNCHANGED <<counter, reply, sd, builds, indexes, heap, transfers, bc,
                   files, packages, tsvars, unanswered, wvars, qvars>>

\* ["KILL", n]
ctrl_KILL(n) ==
    /\ main = "polling"
    /\ slaves' = [a \in DOMAIN slaves |->
                    IF slaves[a].slave_id = n THEN kill(slaves[a]) ELSE slaves[a]]
    /\ UNCHANGED <<paused, main>>
    /\ CtrlFrame

\* ["PAUSE"]
ctrl_PAUSE ==
    /\ main = "polling"
    /\ paused' = TRUE
    /\ UNCHANGED <<slaves, main>>
    /\ CtrlFrame

\* ["RESUME"]
ctrl_RESUME ==
    /\ main = "polling"
    /\ paused' = FALSE
    /\ UNCHANGED <<slaves, main>>
    /\ CtrlFrame

\* ["QUIT"] or Ctrl+C: the loop is left and every slave is killed
ctrl_QUIT ==
    /\ main = "polling"
    /\ slaves' = [a \in DOMAIN slaves |-> kill(slaves[a])]
    /\ main' = "draining"
    /\ UNCHANGED paused
    /\ CtrlFrame

\* The wait for the slaves to leave is over: QUIT is broadcast to the tasks
quit_queue_send ==
    /\ main = "draining"
    /\ main' = "quit"
    /\ UNCHANGED <<slaves, paused>>
    /\ CtrlFrame

\* ------------------------------------------------------ specification
Init ==
    /\ slaves = <<>>
    /\ counter = 0
    /\ paused = FALSE
    /\ reply = Unbound
    /\ sd = "running"
    /\ builds = <<>>
    /\ indexes = <<>>
    /\ heap = [t \in Tids |-> None]
    /\ transfers = <<>>
    /\ bc = "running"
    /\ files = <<>>
    /\ packages = {}
    /\ slaveOut = <<>> /\ statusOut = <<>> /\ dbOut = <<>>
    /\ fileOut = <<>> /\ indexOut = <<>>
    /\ last = NoMessage
    /\ main = "polling"
    /\ ts = None /\ received = {} /\ op = NoOp
    /\ unanswered = <<>>
    /\ wr = WriterIdle /\ target = [k \in Kinds |-> None]
    /\ task = [k \in Tasks |-> "poll"] /\ todo = [k \in Loops |-> 0]
    /\ fin = NoFin
    /\ package_cache = {}

slave_HELLO == \E a \in Addresses : slave_driver(a, Msg("HELLO"))
slave_BYE == \E a \in Addresses : slave_driver(a, Msg("BYE"))
slave_IDLE == \E a \in Builders : slave_driver(a, Msg("IDLE"))
slave_BUILT == \E a \in Builders, m \in BuiltMsgs : slave_driver(a, m)
slave_SENT == \E a \in Builders : slave_driver(a, Msg("SENT"))
slave_other == \E a \in Builders : slave_driver(a, Msg("PING"))
file_recv ==
    \E a \in Builders, m \in FileMsgs :
        build_catcher(a, m) /\ UNCHANGED unanswered

Next ==
    \/ slave_HELLO
    \/ slave_BYE
    \/ slave_IDLE
    \/ slave_BUILT
    \/ slave_SENT
    \/ slave_other
    \/ \E p \in Packages, v \in Versions : queue_stuffer(p, v)
    \/ index_scribbler
    \/ \E n \in 1..MaxSlaves : ctrl_KILL(n)
    \/ ctrl_PAUSE
    \/ ctrl_RESUME
    \/ ctrl_QUIT

Spec == Init /\ [][Next]_vars

\* The transfer of a build: one worker that reports builds and uploads
\* them, build_catcher and the index writer
NextTransfer ==
    \/ \E a \in Builders : slave_driver(a, Msg("HELLO"))
    \/ slave_BUILT
    \/ slave_SENT
    \/ file_recv
    \/ index_scribbler

SpecTransfer == Init /\ [][NextTransfer]_vars

\* ------------------------------------------------- TransferState alone
\* A TransferState object whose methods are called in any order with any
\* arguments, as a peer of build_catcher can make them be called.
MaxCredit == 3

StateSizes == {Block, 4 * Block}
ChunkOffsets == {o * Block : o \in 0..4}
ChunkData == {<<>>, <<1>>, <<0, 1>>, <<1, 1, 1>>}

\* The variables of the master, but for the output tree, which a call on
\* ts leaves alone
mvars == <<slaves, counter, paused, reply, sd, builds, indexes, heap, transfers,
           bc, packages, slaveOut, statusOut, dbOut, fileOut, indexOut,
           last, main, unanswered, task, todo, fin>>

\* The blocks of the file of filesize bytes that a write of data at offset
\* covers
Written(filesize, offset, data) ==
    {i \in 1..(filesize \div Block) :
        i > offset \div Block /\ i <= offset \div Block + Len(data)}

\* ts.chunk(offset, data)
ts_chunk(offset, data) ==
    /\ ts # None /\ ts.credit < MaxCredit
    /\ ts.file = "open"
    /\ ts' = chunk(ts, offset, data)
    /\ received' = received \cup Written(ts.filesize, offset, data)
    /\ op' = [name |-> "chunk", offset |-> offset, data |-> data,
              build |-> None, result |-> None,
              again |-> op.name = "chunk" /\ op.offset = offset /\ op.data = data]
    /\ UNCHANGED <<files, mvars, wvars>>

\* ts.fetch()
ts_fetch ==
    /\ ts # None /\ ~fetch(ts).hang
    /\ ts' = fetch(ts).t
    /\ op' = [name |-> "fetch", offset |-> 0, data |-> <<>>, build |-> None,
              result |-> fetch(ts).result, again |-> FALSE]
    /\ UNCHANGED <<received, files, mvars, wvars>>

\* ts.reset_credit()
ts_reset_credit ==
    /\ ts # None
    /\ ts' = reset_credit(ts)
    /\ op' = [name |-> "reset_credit", offset |-> 0, data |-> <<>>,
              build |-> None, result |-> None, again |-> FALSE]
    /\ UNCHANGED <<received, files, mvars, wvars>>

\* The builds that verify() is given: of the one package, with the digest of
\* a file of one block or of four
VerifyBuilds ==
    {BuildState(1, [package |-> "foo", version |-> "1.0", status |-> TRUE,
                    filename |-> "w.whl", filesize |-> Len(c) * Block,
                    filehash |-> sha256(c)]) :
        c \in {<<1>>, <<0, 0, 0, 0>>, <<0, 0, 1, 0>>}}

\* ts.verify(build) on an open file
ts_verify(build) ==
    /\ ts # None /\ ts.file = "open"
    /\ ts' = verify(ts, build).t
    /\ files' = IF verify(ts, build).ok THEN Committed(build, ts) ELSE files
    /\ op' = [name |-> "verify", offset |-> 0, data |-> <<>>,
              build |-> Some(build), result |-> Some(verify(ts, build).ok),
              again |-> FALSE]
    /\ UNCHANGED <<received, mvars, wvars>>

InitState ==
    /\ slaves = <<>> /\ counter = 0 /\ paused = FALSE /\ reply = Unbound
    /\ sd = "running" /\ bc = "running" /\ main = "polling"
    /\ builds = <<>> /\ indexes = <<>>
    /\ heap = [t \in Tids |-> None] /\ transfers = <<>>
    /\ files = <<>> /\ packages = {}
    /\ slaveOut = <<>> /\ statusOut = <<>> /\ dbOut = <<>>
    /\ fileOut = <<>> /\ indexOut = <<>>
    /\ last = NoMessage
    /\ unanswered = <<>>
    /\ wr = WriterIdle /\ target = [k \in Kinds |-> None]
    /\ task = [k \in Tasks |-> "poll"] /\ todo = [k \in Loops |-> 0]
    /\ fin = NoFin
    /\ package_cache = {}
    /\ ts \in {TransferState(filesize) : filesize \in StateSizes}
    /\ received = {}
    /\ op = NoOp

NextState ==
    \/ (\E offset \in ChunkOffsets, data \in ChunkData : ts_chunk(offset, data))
    \/ ts_fetch
    \/ ts_reset_credit
    \/ (\E build \in VerifyBuilds : ts_verify(build))

SpecState == InitState /\ [][NextState]_vars

\* ------------------------------------------------- one file transfer
\* The worker a1 is told to send files of one chunk and of more chunks than
\* the pipeline holds; its peer on the file socket sends HELLO and CHUNKs,
\* asked for or not, in any order.
MaxUnanswered == 12

CatcherSizes == {chunk_size, (pipeline_size + 1) * chunk_size}
CatcherBuilt ==
    {[tag |-> "BUILT", package |-> "foo", version |-> "1.0", status |-> TRUE,
      filename |-> "w.whl", filesize |-> fs, filehash |-> sha256(<<1, 1>>)] :
        fs \in CatcherSizes}
CatcherMsgs ==
    {FileMsg("HELLO", 1, 0, <<>>), FileMsg("PING", 0, 0, <<>>)}
    \cup {FileMsg("CHUNK", 0, o, d) :
            o \in {0, Block, chunk_size}, d \in {<<1>>, <<1, 1>>}}

\* The FETCH frames among the frames sent
FetchFrames(frames) == SelectSeq(frames, LAMBDA f : f.tag = "FETCH")

\* The frames without the first one that asks for the bytes at start
Answer(frames, start) ==
    LET hits == {i \in 1..Len(frames) : frames[i].start = start} IN
    IF hits = {} THEN frames
    ELSE LET k == CHOOSE i \in hits : \A j \in hits : i <= j IN
         SubSeq(frames, 1, k - 1) \o SubSeq(frames, k + 1, Len(frames))

\* The FETCH frames of the transfer of address that are unanswered after
\* build_catcher has handled msg: a CHUNK answers the oldest FETCH for its
\* offset, the frames just sent are added; an address without a transfer
\* has none.
Unanswered(address, msg) ==
    IF address \notin DOMAIN transfers' THEN <<>>
    ELSE (IF address \notin DOMAIN transfers THEN <<>>
          ELSE IF msg.tag = "CHUNK" THEN Answer(unanswered, msg.offset)
          ELSE unanswered)
         \o FetchFrames(fileOut')

catcher_recv ==
    \E m \in CatcherMsgs :
        /\ build_catcher("a1", m)
        /\ unanswered' = Unanswered("a1", m)
        /\ Len(unanswered') <= MaxUnanswered

NextCatcher ==
    \/ slave_driver("a1", Msg("HELLO"))
    \/ (\E m \in CatcherBuilt : slave_driver("a1", m))
    \/ catcher_recv

SpecCatcher == Init /\ [][NextCatcher]_vars

\* ------------------------------------------------------- index writers
\* The text of an index file is a sequence of pieces, each as much as the
\* buffer of the file object holds but the last, which is less.  Piece i of
\* the n pieces of document d is <<d, i, n>>.
Pieces(d, n) == [i \in 1..n |-> <<d, i, n>>]
IndexContents == {Pieces(d, n) : d \in {"A", "B"}, n \in 1..2}

\* The pieces that a prefix of a text is made of
Prefixes(content) == {SubSeq(content, 1, n) : n \in 0..Len(content)}

\* What write() has handed to the operating system when it returns: the
\* pieces that filled the buffer; the last piece stays in the buffer
Flushed(written) ==
    IF written = <<>> THEN <<>> ELSE SubSeq(written, 1, Len(written) - 1)

\* (mutant) the temporary file is renamed whether the block raised or not
ExitRenames_always(exc) == TRUE

\* AtomicReplaceFile.__exit__: if exc_type is None
ExitRenames(exc) == ~exc

\* tempfile.NamedTemporaryFile(..., delete=False) for a text to write
wr_open(kind, content) ==
    /\ wr.pc \in {"idle", "done"}
    /\ wr' = [kind |-> kind, pc |-> "open", content |-> content,
              written |-> <<>>, disk |-> <<>>, exc |-> FALSE, temp |-> "temp",
              raised |-> FALSE]
    /\ UNCHANGED <<target, package_cache, tsvars, files, mvars>>

\* The block of the with statement: write(text), which may raise after
\* part of the text
wr_write(written) ==
    /\ wr.pc = "open"
    /\ wr' = [wr EXCEPT !.pc = "written", !.written = written,
                        !.disk = Flushed(written),
                        !.exc = (written # wr.content)]
    /\ UNCHANGED <<target, package_cache, tsvars, files, mvars>>

\* write_root_index, write_package_index: os.fchmod, os.replace inside the
\* with block
wr_replace ==
    /\ wr.kind = "index" /\ wr.pc = "written" /\ ~wr.exc
    /\ wr' = [wr EXCEPT !.pc = "replaced", !.temp = "target"]
    /\ target' = [target EXCEPT !["index"] = Some(wr.disk)]
    /\ UNCHANGED <<package_cache, tsvars, files, mvars>>

\* write_root_index, write_package_index: the with block is left and the
\* file is closed, which writes the buffer out; an exception goes on
wr_close ==
    /\ wr.kind = "index"
    /\ wr.pc = "replaced" \/ (wr.pc = "written" /\ wr.exc)
    /\ wr' = [wr EXCEPT !.pc = "done", !.disk = wr.written, !.raised = wr.exc]
    /\ target' = IF wr.temp = "target"
                 THEN [target EXCEPT !["index"] = Some(wr.written)]
                 ELSE target
    /\ UNCHANGED <<package_cache, tsvars, files, mvars>>

\* AtomicReplaceFile.__exit__: os.fchmod, self._tempfile.__exit__, which
\* closes the file
wr_exit_close ==
    /\ wr.kind = "atomic" /\ wr.pc = "written"
    /\ wr' = [wr EXCEPT !.pc = "closed", !.disk = wr.written]
    /\ UNCHANGED <<target, package_cache, tsvars, files, mvars>>

\* AtomicReplaceFile.__exit__: os.rename or os.unlink; None is returned, so
\* that an exception of the block goes on
wr_exit_finish ==
    /\ wr.kind = "atomic" /\ wr.pc = "closed"
    /\ wr' = [wr EXCEPT !.pc = "done",
                        !.temp = IF ExitRenames(wr.exc) THEN "target" ELSE "unlinked",
                        !.raised = wr.exc]
    /\ target' = IF ExitRenames(wr.exc)
                 THEN [target EXCEPT !["atomic"] = Some(wr.disk)]
                 ELSE target
    /\ UNCHANGED <<package_cache, tsvars, files, mvars>>

NextIndex ==
    \/ (\E kind \in Kinds, content \in IndexContents : wr_open(kind, content))
    \/ (\E written \in Prefixes(wr.content) : wr_write(written))
    \/ wr_replace
    \/ wr_close
    \/ wr_exit_close
    \/ wr_exit_finish

SpecIndex == Init /\ [][NextIndex]_vars

\* ------------------------------------------------------------ shutdown
\* The tasks followed step by step until they leave their loops.

\* The items that get_all_packages() or get_build_queue() gives at most
MaxItems == 2

\* The step of a task that handles no message; the position of the task,
\* the status records and the builds queue are given by the caller
TaskFrame ==
    /\ last' = NoMessage
    /\ slaveOut' = <<>> /\ dbOut' = <<>> /\ fileOut' = <<>> /\ indexOut' = <<>>
    /\ UNCHANGED <<slaves, counter, paused, reply, indexes, heap, transfers,
                   files, packages, main, tsvars, unanswered, wvars, fin>>

\* A task at position pc, its for loop with n items left
At(name, pc) == [task EXCEPT ![name] = pc]
Left(name, n) == [todo EXCEPT ![name] = n]

\* web_scraper: while not quit_queue.poll(1000); update_package_list and
\* the for loop entered
web_scraper_poll ==
    /\ task["web_scraper"] = "poll"
    /\ IF main = "quit"
       THEN task' = At("web_scraper", "done") /\ todo' = todo
       ELSE /\ task' = At("web_scraper", "for")
            /\ \E n \in 0..MaxItems : todo' = Left("web_scraper", n)
    /\ statusOut' = <<>>
    /\ UNCHANGED <<sd, bc, builds>>
    /\ TaskFrame

\* web_scraper: the for loop: update_package_version_list(package), then
\* break if quit_queue.poll(0)
web_scraper_for ==
    /\ task["web_scraper"] = "for"
    /\ IF todo["web_scraper"] = 0
       THEN task' = At("web_scraper", "poll") /\ todo' = todo
       ELSE /\ todo' = Left("web_scraper", todo["web_scraper"] - 1)
            /\ task' = At("web_scraper",
                          IF main = "quit" THEN "poll" ELSE "paused")
    /\ statusOut' = <<>>
    /\ UNCHANGED <<sd, bc, builds>>
    /\ TaskFrame

\* web_scraper: while self.paused: sleep(1); the loop is left when paused
\* is found false, and a turn of it changes nothing
web_scraper_paused ==
    /\ task["web_scraper"] = "paused"
    /\ ~paused
    /\ task' = At("web_scraper", "for")
    /\ statusOut' = <<>>
    /\ UNCHANGED <<sd, bc, builds, todo>>
    /\ TaskFrame

\* queue_stuffer: while not quit_queue.poll(0); the for loop entered over
\* db.get_build_queue()
queue_stuffer_poll ==
    /\ task["queue_stuffer"] = "poll"
    /\ IF main = "quit"
       THEN task' = At("queue_stuffer", "done") /\ todo' = todo
       ELSE /\ task' = At("queue_stuffer", "for")
            /\ \E n \in 0..MaxItems : todo' = Left("queue_stuffer", n)
    /\ statusOut' = <<>>
    /\ UNCHANGED <<sd, bc, builds>>
    /\ TaskFrame

\* queue_stuffer: the next (package, version) of the for loop
queue_stuffer_for ==
    /\ task["queue_stuffer"] = "for"
    /\ task' = At("queue_stuffer",
                  IF todo["queue_stuffer"] = 0 THEN "poll" ELSE "send")
    /\ statusOut' = <<>>
    /\ UNCHANGED <<sd, bc, builds, todo>>
    /\ TaskFrame

\* queue_stuffer: the inner while not quit_queue.poll(0): the item is sent
\* and the loop left when the builds queue has room within a second; a
\* turn with the queue full changes nothing
queue_stuffer_send ==
    /\ task["queue_stuffer"] = "send"
    /\ IF main = "quit"
       THEN UNCHANGED <<builds, todo>>
       ELSE /\ Len(builds) < MaxBuilds
            /\ \E p \in Packages, v \in Versions :
                  builds' = Append(builds, <<p, v>>)
            /\ todo' = Left("queue_stuffer", todo["queue_stuffer"] - 1)
    /\ task' = At("queue_stuffer", "check")
    /\ statusOut' = <<>>
    /\ UNCHANGED <<sd, bc>>
    /\ TaskFrame

\* queue_stuffer: if quit_queue.poll(0): break
queue_stuffer_check ==
    /\ task["queue_stuffer"] = "check"
    /\ task' = At("queue_stuffer", IF main = "quit" THEN "poll" ELSE "for")
    /\ statusOut' = <<>>
    /\ UNCHANGED <<sd, bc, builds, todo>>
    /\ TaskFrame

\* big_brother: while not quit_queue.poll(10000): a STATUS record is pushed
big_brother ==
    /\ task["big_brother"] = "poll"
    /\ IF main = "quit"
       THEN task' = At("big_brother", "done") /\ statusOut' = <<>>
       ELSE /\ task' = task
            /\ statusOut' = <<[slave_id |-> -1, reply |-> Reply("STATUS", 0, "", "")]>>
    /\ UNCHANGED <<sd, bc, builds, todo>>
    /\ TaskFrame

\* index_scribbler: while not quit_queue.poll(0) is left
index_scribbler_quit ==
    /\ task["index_scribbler"] = "poll" /\ main = "quit"
    /\ task' = At("index_scribbler", "done")
    /\ statusOut' = <<>>
    /\ UNCHANGED <<sd, bc, builds, todo>>
    /\ TaskFrame

\* slave_driver: while not quit_queue.poll(0) is left
slave_driver_quit ==
    /\ sd = "running" /\ main = "quit"
    /\ sd' = "done"
    /\ statusOut' = <<>>
    /\ UNCHANGED <<bc, builds, qvars>>
    /\ TaskFrame

\* build_catcher: while not quit_queue.poll(0) is left
build_catcher_quit ==
    /\ bc = "running" /\ main = "quit"
    /\ bc' = "done"
    /\ statusOut' = <<>>
    /\ UNCHANGED <<sd, builds, qvars>>
    /\ TaskFrame

\* The messages of the one worker that takes builds off the queue
QuitMsgs == {Msg("HELLO"), Msg("IDLE")}

\* The steps of each thread
web_scraper == web_scraper_poll \/ web_scraper_for \/ web_scraper_paused
queue_stuffer_thread ==
    queue_stuffer_poll \/ queue_stuffer_for \/ queue_stuffer_send
        \/ queue_stuffer_check
slave_driver_thread ==
    (\E m \in QuitMsgs : slave_driver("a1", m)) \/ slave_driver_quit

NextQuit ==
    \/ ctrl_PAUSE
    \/ ctrl_RESUME
    \/ ctrl_QUIT
    \/ quit_queue_send
    \/ web_scraper_poll
    \/ web_scraper_for
    \/ web_scraper_paused
    \/ queue_stuffer_poll
    \/ queue_stuffer_for
    \/ queue_stuffer_send
    \/ queue_stuffer_check
    \/ big_brother
    \/ index_scribbler_quit
    \/ (\E m \in QuitMsgs : slave_driver("a1", m))
    \/ slave_driver_quit
    \/ build_catcher_quit

\* Every thread is scheduled again and again, and the supervisor goes on
\* to the broadcast once it has left its loop
SpecQuit ==
    /\ Init /\ [][NextQuit]_vars
    /\ WF_vars(quit_queue_send)
    /\ WF_vars(web_scraper)
    /\ WF_vars(queue_stuffer_thread)
    /\ WF_vars(big_brother)
    /\ WF_vars(index_scribbler_quit)
    /\ WF_vars(slave_driver_thread)
    /\ WF_vars(build_catcher_quit)

\* A thread that has left its loop, or was ended by an exception
Terminated(thread) == thread \in {"done", "crashed"}

\* ------------------------------------------------- the finally block
\* The seconds main waits at most for the slaves to leave
Waits == 5

\* A step of main in its finally block; the slaves, the position of main
\* and the progress of the block are given by the caller
MainFrame ==
    /\ last' = NoMessage
    /\ slaveOut' = <<>> /\ statusOut' = <<>> /\ dbOut' = <<>>
    /\ fileOut' = <<>> /\ indexOut' = <<>>
    /\ UNCHANGED <<counter, paused, reply, sd, builds, indexes, heap, transfers,
                   bc, files, packages, tsvars, unanswered, wvars, task, todo>>

\* (mutant) QUIT is broadcast without a look at the slaves or the waits
WaitOver_atonce(sl, waits) == TRUE

\* for i in range(5): if not self.slaves: break; sleep(1) has ended
WaitOver(sl, waits) == sl = <<>> \/ waits = Waits

\* Whether the thread that main joins under this name has ended
ThreadEnded(name) ==
    CASE name = "index" -> task["index_scribbler"] = "done"
      [] name = "slave" -> Terminated(sd)
      [] name = "status" -> task["big_brother"] = "done"
      [] name = "files" -> Terminated(bc)
      [] name = "builds" -> task["queue_stuffer"] = "done"
      [] name = "packages" -> task["web_scraper"] = "done"

\* QUIT on the control queue, or Ctrl+C: the loop is left and the loop over
\* self.slaves.values() begins
main_break ==
    /\ main = "polling"
    /\ main' = "killing"
    /\ fin' = [fin EXCEPT !.size = Cardinality(DOMAIN slaves), !.visited = {}]
    /\ UNCHANGED slaves
    /\ MainFrame

\* One turn of for slave in self.slaves.values(): slave.kill().  The
\* iterator raises RuntimeError when slave_driver has changed the size of
\* the dict since the loop began, and the finally block ends there.
main_kill ==
    /\ main = "killing"
    /\ \/ /\ Cardinality(DOMAIN slaves) # fin.size
          /\ main' = "raised"
          /\ UNCHANGED <<slaves, fin>>
       \/ /\ Cardinality(DOMAIN slaves) = fin.size
          /\ \E a \in DOMAIN slaves :
                /\ slaves[a].slave_id \notin fin.visited
                /\ slaves' = [slaves EXCEPT ![a] = kill(slaves[a])]
                /\ fin' = [fin EXCEPT !.visited = @ \cup {slaves[a].slave_id}]
          /\ UNCHANGED main
       \/ /\ Cardinality(DOMAIN slaves) = fin.size
          /\ \A a \in DOMAIN slaves : slaves[a].slave_id \in fin.visited
          /\ main' = "draining"
          /\ UNCHANGED <<slaves, fin>>
    /\ MainFrame

\* sleep(1) while there are slaves, five times at most
main_wait ==
    /\ main = "draining"
    /\ ~WaitOver(slaves, fin.waits)
    /\ fin' = [fin EXCEPT !.waits = @ + 1]
    /\ UNCHANGED <<slaves, main>>
    /\ MainFrame

\* quit_queue.send_string('QUIT')
main_QUIT ==
    /\ main = "draining"
    /\ WaitOver(slaves, fin.waits)
    /\ main' = "quit"
    /\ UNCHANGED <<slaves, fin>>
    /\ MainFrame

\* The next join() returns: the thread it waits for has ended
main_join ==
    /\ main = "quit"
    /\ Len(fin.joined) < Len(JoinOrder)
    /\ ThreadEnded(JoinOrder[Len(fin.joined) + 1])
    /\ fin' = [fin EXCEPT !.joined = Append(@, JoinOrder[Len(fin.joined) + 1])]
    /\ UNCHANGED <<slaves, main>>
    /\ MainFrame

\* The four sockets are closed and the context terminated
main_close ==
    /\ main = "quit"
    /\ Len(fin.joined) = Len(JoinOrder)
    /\ ~fin.closed
    /\ fin' = [fin EXCEPT !.closed = TRUE]
    /\ UNCHANGED <<slaves, main>>
    /\ MainFrame

\* The slaves come and go while main is in its finally block.  Of the other
\* threads the step that finds QUIT is taken: what they do before it is not
\* seen by main (SpecQuit follows it).
NextShutdown ==
    \/ (\E a \in Addresses : slave_driver(a, Msg("HELLO")))
    \/ (\E a \in Addresses : slave_driver(a, Msg("BYE")))
    \/ main_break
    \/ main_kill
    \/ main_wait
    \/ main_QUIT
    \/ main_join
    \/ main_close
    \/ (main = "quit" /\ web_scraper_poll)
    \/ (main = "quit" /\ queue_stuffer_poll)
    \/ (main = "quit" /\ big_brother)
    \/ index_scribbler_quit
    \/ slave_driver_quit
    \/ build_catcher_quit

SpecShutdown == Init /\ [][NextShutdown]_vars

\* ------------------------------------------------ recovery from loss
\* One worker whose first FETCH frames are all lost, which says HELLO
\* again and then answers every FETCH it is sent.  Here unanswered holds
\* the FETCH frames that have reached the worker and wait for its CHUNK.
RecoverSizes ==
    {Block, chunk_size, 3 * Block, 2 * chunk_size, 5 * Block, 3 * chunk_size,
     (pipeline_size + 1) * chunk_size}
RecoverBuilt ==
    {[tag |-> "BUILT", package |-> "foo", version |-> "1.0", status |-> TRUE,
      filename |-> "w.whl", filesize |-> fs, filehash |-> sha256(<<1>>)] :
        fs \in RecoverSizes}

\* The CHUNK that answers a FETCH frame: the bytes asked for
MatchingChunk(f) ==
    FileMsg("CHUNK", 0, f.start, [i \in 1..(f.length \div Block) |-> 1])

\* The worker reports its build once
recover_BUILT ==
    /\ "a1" \in DOMAIN slaves /\ slaves["a1"].build = None
    /\ \E m \in RecoverBuilt : slave_driver("a1", m)
    /\ UNCHANGED unanswered

\* HELLO on the file socket: the transfer is adopted; the FETCH frames sent
\* are lost on the way
recover_HELLO ==
    /\ "a1" \notin DOMAIN transfers
    /\ "a1" \in DOMAIN slaves /\ slaves["a1"].transfer # 0
    /\ ~done(heap[slaves["a1"].transfer][1])
    /\ build_catcher("a1", FileMsg("HELLO", slaves["a1"].slave_id, 0, <<>>))
    /\ unanswered' = <<>>

\* The worker has waited in vain and says HELLO again; the FETCH frames
\* sent reach it
recover_HELLO_again ==
    /\ "a1" \in DOMAIN transfers /\ unanswered = <<>>
    /\ build_catcher("a1", FileMsg("HELLO", slaves["a1"].slave_id, 0, <<>>))
    /\ unanswered' = FetchFrames(fileOut')

\* The worker answers the oldest FETCH it has with the matching CHUNK
recover_CHUNK ==
    /\ unanswered # <<>>
    /\ build_catcher("a1", MatchingChunk(Head(unanswered)))
    /\ unanswered' = Tail(unanswered) \o FetchFrames(fileOut')

NextRecover ==
    \/ slave_driver("a1", Msg("HELLO")) /\ "a1" \notin DOMAIN slaves
    \/ recover_BUILT
    \/ recover_HELLO
    \/ recover_HELLO_again
    \/ recover_CHUNK

\* The worker goes on answering, and build_catcher goes on handling
SpecRecover == Init /\ [][NextRecover]_vars /\ WF_vars(recover_CHUNK)

\* ------------------------------------------------ transfer without loss
\* One worker that is sent every FETCH frame and answers each with the
\* matching CHUNK.  Here unanswered holds the FETCH frames that wait for
\* the worker's CHUNK.
LossFreeSizes ==
    {n * Block : n \in 1..12} \cup {(pipeline_size + 1) * chunk_size}
LossFreeBuilt ==
    {[tag |-> "BUILT", package |-> "foo", version |-> "1.0", status |-> TRUE,
      filename |-> "w.whl", filesize |-> fs, filehash |-> sha256(<<1>>)] :
        fs \in LossFreeSizes}

\* The worker reports its build once
lossfree_BUILT ==
    /\ "a1" \in DOMAIN slaves /\ slaves["a1"].build = None
    /\ \E m \in LossFreeBuilt : slave_driver("a1", m)
    /\ UNCHANGED unanswered

\* HELLO on the file socket: the transfer is adopted and the FETCH frames
\* sent reach the worker
lossfree_HELLO ==
    /\ "a1" \notin DOMAIN transfers
    /\ "a1" \in DOMAIN slaves /\ slaves["a1"].transfer # 0
    /\ ~done(heap[slaves["a1"].transfer][1])
    /\ build_catcher("a1", FileMsg("HELLO", slaves["a1"].slave_id, 0, <<>>))
    /\ unanswered' = FetchFrames(fileOut')

NextLossFree ==
    \/ slave_driver("a1", Msg("HELLO")) /\ "a1" \notin DOMAIN slaves
    \/ lossfree_BUILT
    \/ lossfree_HELLO
    \/ recover_CHUNK

SpecLossFree == Init /\ [][NextLossFree]_vars

\* ------------------------------------------------------------ claims
\* The step just taken handled the message tag of a worker in slave_driver
Handled(tag) == last'.task = "slave_driver" /\ last'.tag = tag

\* The step just taken sent exactly the reply r to address a
Sent(a, r) == slaveOut' = <<[to |-> a, reply |-> r]>>

\* The state of a worker in the protocol's state machine, from the last
\* reply its SlaveState holds
WorkerState(a) ==
    IF a \notin DOMAIN slaves THEN "UNKNOWN"
    ELSE IF slaves[a].reply.tag \in {"HELLO", "SLEEP", "DONE"} THEN "IDLE"
    ELSE IF slaves[a].reply.tag = "BUILD" THEN "BUILDING"
    ELSE IF slaves[a].reply.tag = "SEND" THEN "SENDING"
    ELSE "DEAD"

\* C1: every reply sent to a worker is a transition of the worker state
\* machine from the state the worker is in: HELLO only from UNKNOWN in
\* answer to HELLO, BUILD/SLEEP/BYE only in answer to IDLE while IDLE,
\* SEND/DONE in answer to BUILT only while BUILDING and in answer to SENT
\* only while SENDING.
C1_ProtocolLinearity ==
    [][\A a \in Addresses : \A r \in {slaveOut'[i].reply : i \in 1..Len(slaveOut')} :
          Sent(a, r) =>
            /\ r.tag = "HELLO" => Handled("HELLO") /\ WorkerState(a) = "UNKNOWN"
            /\ r.tag \in {"BUILD", "SLEEP", "BYE"} =>
                  Handled("IDLE") /\ WorkerState(a) = "IDLE"
            /\ r.tag \in {"SEND", "DONE"} =>
                  \/ Handled("BUILT") /\ WorkerState(a) = "BUILDING"
                  \/ Handled("SENT") /\ WorkerState(a) = "SENDING"]_vars

\* C2: a first message other than HELLO from an address without a
\* SlaveState is dropped: no SlaveState is allocated, the counter does not
\* advance, no reply is sent, no status record is published.
C2_FirstMessageDropped ==
    [][(last'.task = "slave_driver" /\ last'.address \notin DOMAIN slaves
            /\ last'.tag # "HELLO")
       => /\ slaves' = slaves
          /\ counter' = counter
          /\ slaveOut' = <<>>
          /\ statusOut' = <<>>]_vars

C2_Witness ==
    /\ last.task = "slave_driver" /\ ~last.known /\ last.tag = "IDLE"
    /\ last.address \notin DOMAIN slaves

\* C3: a HELLO from an address that has a SlaveState is ignored: no reply
\* is sent, no slave_id is allocated, and the SlaveState is unchanged.
C3_KnownHelloIgnored ==
    [][(Handled("HELLO") /\ last'.address \in DOMAIN slaves)
       => /\ slaveOut' = <<>>
          /\ counter' = counter
          /\ slaves' = slaves]_vars

\* C4: a message with an unknown tag from a known worker is dropped: no
\* reply is sent, no SlaveState changes, the worker stays in the map and
\* slave_driver keeps running.
C4_InvalidTagDropped ==
    [][(last'.task = "slave_driver" /\ last'.address \in DOMAIN slaves
            /\ ~TagHandled(last'.tag))
       => /\ slaveOut' = <<>>
          /\ slaves' = slaves
          /\ sd' = "running"]_vars

\* C5 as stated: while paused, every IDLE from a known worker is answered
\* SLEEP and the builds queue is left alone.
C5_PausedAlwaysSleep ==
    [][(Handled("IDLE") /\ last'.address \in DOMAIN slaves /\ paused)
       => /\ Sent(last'.address, SLEEP)
          /\ builds' = builds]_vars

\* C5 as amended: while paused, an IDLE from a known worker is answered
\* SLEEP unless the worker is terminated, and then BYE; nothing is taken
\* from the builds queue either way.
C5_PausedSleepOrBye ==
    [][(Handled("IDLE") /\ last'.address \in DOMAIN slaves /\ paused)
       => /\ Sent(last'.address,
                  IF slaves[last'.address].terminated THEN BYE ELSE SLEEP)
          /\ builds' = builds]_vars

C5_Witness ==
    /\ last.task = "slave_driver" /\ last.tag = "IDLE" /\ last.known
    /\ paused /\ builds # <<>>
    /\ slaveOut = <<[to |-> last.address, reply |-> SLEEP]>>

\* C6 as stated: the IDLE of a terminated worker is answered BYE and its
\* SlaveState is removed from the map by that step.
C6_ByeAndRemoved ==
    [][\A a \in Addresses :
          (Handled("IDLE") /\ last'.address = a /\ a \in DOMAIN slaves
              /\ slaves[a].terminated)
          => Sent(a, BYE) /\ a \notin DOMAIN slaves']_vars

\* C6 as amended: KILL n sets the terminated flag of the worker whose
\* slave_id is n and of no other; the flag stays set while the SlaveState
\* is in the map; the IDLE of a terminated worker is answered BYE and the
\* SlaveState stays in the map; a SlaveState leaves the map only when its
\* worker sends BYE.
C6_ByeThenRemovedOnBye ==
    [][\A a \in Addresses :
          /\ \A n \in 1..MaxSlaves :
                (ctrl_KILL(n) /\ a \in DOMAIN slaves)
                => slaves'[a].terminated =
                      (slaves[a].terminated \/ slaves[a].slave_id = n)
          /\ (a \in DOMAIN slaves /\ slaves[a].terminated /\ a \in DOMAIN slaves')
             => slaves'[a].terminated
          /\ (Handled("IDLE") /\ last'.address = a /\ a \in DOMAIN slaves
                 /\ slaves[a].terminated)
             => Sent(a, BYE) /\ a \in DOMAIN slaves'
          /\ (a \in DOMAIN slaves /\ a \notin DOMAIN slaves')
             => Handled("BYE") /\ last'.address = a]_vars

C6_Witness ==
    /\ last.task = "slave_driver" /\ last.tag = "IDLE" /\ last.known
    /\ main = "polling"
    /\ slaveOut = <<[to |-> last.address, reply |-> BYE]>>
    /\ last.address \in DOMAIN slaves /\ slaves[last.address].terminated

\* C7: for a worker with a transfer, the reply to SENT is DONE exactly when
\* verify() succeeds; with DONE the package name is put on the indexes
\* queue once and the worker's build and transfer are cleared; otherwise
\* the reply is SEND and nothing is put on the indexes queue.
C7_SentVerified ==
    [][\A a \in Addresses :
          (Handled("SENT") /\ last'.address = a /\ a \in DOMAIN slaves
              /\ slaves[a].transfer # 0)
          => \E build \in {slaves[a].build[1]} :
             \E v \in {verify(heap[slaves[a].transfer][1], build)} :
                IF v.ok
                THEN /\ Sent(a, DONE)
                     /\ indexes' = Append(indexes, build.package)
                     /\ slaves'[a].build = None
                     /\ slaves'[a].transfer = 0
                ELSE /\ Sent(a, SEND)
                     /\ indexes' = indexes]_vars

C7_Witness ==
    /\ last.task = "slave_driver" /\ last.tag = "SENT" /\ last.known
    /\ slaveOut = <<[to |-> last.address, reply |-> DONE]>>
    /\ indexes = <<"foo">>
    /\ \E k \in DOMAIN files : files[k] = <<1>>

\* C8: when a known worker reports BUILT the build is handed to the
\* database; when its status is false the reply is DONE, no TransferState
\* is created, the worker's build and transfer are empty afterwards, and
\* nothing is put on the indexes queue or into the output tree.
C8_FailedBuild ==
    [][\A a \in Addresses :
          (Handled("BUILT") /\ last'.address = a /\ a \in DOMAIN slaves)
          => /\ Len(dbOut') = 1
             /\ dbOut'[1].slave_id = slaves[a].slave_id
             /\ ~dbOut'[1].status
                => /\ Sent(a, DONE)
                   /\ slaves'[a].build = None
                   /\ slaves'[a].transfer = 0
                   /\ \A t \in Tids : heap'[t] # None => heap'[t] = heap[t]
                   /\ indexes' = indexes
                   /\ files' = files]_vars

C8_Witness ==
    /\ last.task = "slave_driver" /\ last.tag = "BUILT" /\ last.known
    /\ dbOut # <<>> /\ ~dbOut[1].status
    /\ slaveOut = <<[to |-> last.address, reply |-> DONE]>>

\* The output tree holds a file of the package
InOutputTree(package) == \E fn \in Filenames : <<package, fn>> \in DOMAIN files

\* Every package on the indexes queue, and every package whose index the
\* last step rewrote, has a file in the output tree
C9_Indexed ==
    /\ \A i \in 1..Len(indexes) : InOutputTree(indexes[i])
    /\ \A j \in 1..Len(indexOut) :
          indexOut[j].kind = "package" => InOutputTree(indexOut[j].package)

\* A step that puts a package on the indexes queue is the handling of SENT
\* for a build of that package whose file has the digest the build
\* announced and is at its final path after the step
C9_Enqueue ==
    Len(indexes') > Len(indexes)
    => \E a \in DOMAIN slaves :
          /\ Handled("SENT") /\ last'.address = a
          /\ slaves[a].transfer # 0 /\ slaves[a].build # None
          /\ \E build \in {slaves[a].build[1]} :
             \E key \in {<<build.package, build.filename>>} :
                /\ indexes' = Append(indexes, build.package)
                /\ key \in DOMAIN files'
                /\ sha256(files'[key]) = build.filehash
                /\ files'[key] = heap[slaves[a].transfer][1].content

\* C9: a package reaches the indexes queue, and so the index writer, only
\* after the file of the build that triggered it has been verified and
\* renamed to its final path; the index of a package is never rewritten
\* while the output tree has no file of it.
C9_IndexAfterCommit == []C9_Indexed /\ [][C9_Enqueue]_vars

C9_Witness ==
    /\ \E j \in 1..Len(indexOut) :
          indexOut[j].kind = "package" /\ InOutputTree(indexOut[j].package)
    /\ \E k \in DOMAIN files : files[k] = <<1>>

\* C10: BUILD is never sent to a worker whose previous build is still in
\* flight, that is whose last reply was BUILD or SEND.
C10_OneInFlight ==
    [][\A a \in Addresses :
          (slaveOut' # <<>> /\ slaveOut'[1].to = a
              /\ slaveOut'[1].reply.tag = "BUILD")
          => WorkerState(a) \notin {"BUILDING", "SENDING"}]_vars

\* The slave_ids in the map are distinct and lie in 1..counter
C11_Ids ==
    /\ \A a \in DOMAIN slaves : slaves[a].slave_id \in 1..counter
    /\ \A a, b \in DOMAIN slaves : a # b => slaves[a].slave_id # slaves[b].slave_id

\* A SlaveState that enters the map is given the successor of the counter,
\* which is above every slave_id given before; the counter never goes
\* down; an address that stays in the map keeps its slave_id
C11_Step ==
    /\ counter' >= counter
    /\ \A a \in Addresses :
          /\ (a \notin DOMAIN slaves /\ a \in DOMAIN slaves')
             => /\ Handled("HELLO") /\ last'.address = a
                /\ slaves'[a].slave_id = counter + 1
                /\ counter' = counter + 1
          /\ (a \in DOMAIN slaves /\ a \in DOMAIN slaves')
             => slaves'[a].slave_id = slaves[a].slave_id

\* C11: slave_ids are given as 1, 2, 3, ... in the order of first contact;
\* no two SlaveStates ever created share a slave_id; the slave_id of an
\* address does not change while the address stays in the map.
C11_SlaveIds == (counter = 0) /\ []C11_Ids /\ [][C11_Step]_vars

C11_Witness ==
    /\ DOMAIN slaves = {"a1", "a2"}
    /\ counter = 2
    /\ last.task = "slave_driver" /\ last.tag = "HELLO" /\ ~last.known

\* sum(len(r) for r in ranges)
RECURSIVE SumLen(_)
SumLen(ranges) ==
    IF ranges = <<>> THEN 0 ELSE rlen(Head(ranges)) + SumLen(Tail(ranges))

\* C12: after any sequence of chunk() calls, the total length of the
\* missing ranges plus the number of distinct bytes of [0, filesize)
\* received is filesize, and the missing ranges are pairwise disjoint and
\* strictly increasing by start.
C12_MapAccounts ==
    ts # None =>
        /\ SumLen(ts.map) + Cardinality(received) * Block = ts.filesize
        /\ \A i \in 1..(Len(ts.map) - 1) :
              /\ ts.map[i][1] < ts.map[i + 1][1]
              /\ ts.map[i][2] <= ts.map[i + 1][1]

C12_Witness ==
    /\ ts # None /\ op.name = "chunk" /\ op.again
    /\ Len(ts.map) = 2
    /\ Cardinality(received) = 2

\* C13: every range that fetch() returns is non-empty, at most chunk_size
\* long, and lies inside one element of the missing ranges.
C13_FetchInMap ==
    (ts # None /\ op.name = "fetch" /\ op.result # None) =>
        \E r \in {op.result[1]} :
            /\ r[1] < r[2]
            /\ r[2] - r[1] <= chunk_size
            /\ \E i \in 1..Len(ts.map) :
                  ts.map[i][1] <= r[1] /\ r[2] <= ts.map[i][2]

C13_Witness ==
    /\ ts # None /\ op.name = "fetch" /\ op.result # None
    /\ Len(ts.map) = 2
    /\ op.result[1] = ts.map[2]
    /\ rlen(op.result[1]) = Block

\* sum of the lengths that frames ask for
RECURSIVE SumFrames(_)
SumFrames(frames) ==
    IF frames = <<>> THEN 0 ELSE Head(frames).length + SumFrames(Tail(frames))

\* C14: the credit of every TransferState is within 0..pipeline_size, in
\* every state and also between the method build_catcher calls for a
\* message (chunk, reset_credit) and the FETCH loop that follows it.
C14_CreditBounds ==
    /\ \A t \in Tids : heap[t] # None => heap[t][1].credit \in 0..pipeline_size
    /\ \A a \in DOMAIN transfers :
          (transfers[a] # 0 /\ heap[transfers[a]][1].file = "open")
          => \E t \in {heap[transfers[a]][1]} :
                /\ reset_credit(t).credit \in 0..pipeline_size
                /\ \A m \in CatcherMsgs :
                      m.tag = "CHUNK"
                      => chunk(t, m.offset, m.data).credit \in 0..pipeline_size

C14_Witness ==
    /\ last.task = "build_catcher" /\ last.tag = "CHUNK" /\ last.known
    /\ Len(fileOut) = 1 /\ fileOut[1].tag = "FETCH"
    /\ Len(unanswered) > pipeline_size
    /\ \E a \in DOMAIN transfers : heap[transfers[a]][1].credit = 0

\* C15: the bytes asked for by FETCH frames that no CHUNK has answered yet
\* never exceed pipeline_size * chunk_size.
C15_InFlightBytes == SumFrames(unanswered) <= pipeline_size * chunk_size

\* C16: applying the same chunk(offset, data) a second time leaves the
\* missing ranges and the content of the file as the first left them.
C16_ChunkTwice ==
    [][(op'.name = "chunk" /\ op'.again)
       => ts'.map = ts.map /\ ts'.content = ts.content]_vars

C16_Witness ==
    /\ ts # None /\ op.name = "chunk" /\ op.again
    /\ op.offset = Block /\ op.data = <<0, 1>>
    /\ ts.filesize = 4 * Block
    /\ Len(ts.map) = 2

\* C17: verify(build) returns true exactly when the digest of the file
\* received equals build.filehash; then the file is at <package>/<filename>
\* and the temporary path is gone; when it returns false the temporary
\* file is unlinked and the output tree is as it was.
C17_Verify ==
    [][op'.name = "verify"
       => \E build \in {op'.build[1]} :
          \E key \in {<<build.package, build.filename>>} :
             /\ (op'.result = Some(TRUE)) <=> (sha256(ts.content) = build.filehash)
             /\ op'.result = Some(TRUE)
                => /\ key \in DOMAIN files'
                   /\ files'[key] = ts.content
                   /\ ts'.path = "renamed"
             /\ op'.result = Some(FALSE)
                => /\ ts'.path = "unlinked"
                   /\ files' = files]_vars

C17_Witness ==
    /\ ts # None /\ op.name = "verify" /\ op.result = Some(TRUE)
    /\ ts.path = "renamed"
    /\ <<"foo", "w.whl">> \in DOMAIN files
    /\ files[<<"foo", "w.whl">>] = <<0, 0, 1, 0>>

\* C18: a reader of the index.html that write_root_index or
\* write_package_index replaces finds the whole previous text or the whole
\* new text, at every step of a write.
C18_IndexWhole == target["index"] = None \/ target["index"][1] \in IndexContents

\* The file that AtomicReplaceFile replaces holds a whole text
C19_Whole == target["atomic"] = None \/ target["atomic"][1] \in IndexContents

\* The target changes only by the rename of a closed temporary file that
\* holds the whole text of a block that did not raise; when the block
\* raised the temporary file is unlinked, the target is left as it was and
\* the exception goes on
C19_Exit ==
    /\ target'["atomic"] # target["atomic"]
       => /\ wr.kind = "atomic" /\ wr.pc = "closed" /\ ~wr.exc
          /\ wr.disk = wr.content
          /\ target'["atomic"] = Some(wr.content)
          /\ wr'.temp = "target" /\ ~wr'.raised
    /\ (wr.kind = "atomic" /\ wr.pc = "closed" /\ ~wr.exc)
       => target'["atomic"] = Some(wr.content)
    /\ (wr.kind = "atomic" /\ wr.pc = "closed" /\ wr.exc)
       => /\ wr'.temp = "unlinked"
          /\ wr'.raised
          /\ target' = target

\* C19: AtomicReplaceFile closes the temporary file and then renames it
\* over the target when the block ends without an exception; when the
\* block raises it deletes the temporary file, leaves the target as it was
\* and lets the exception go on; the target never holds part of a text.
C19_AtomicReplace == []C19_Whole /\ [][C19_Exit]_vars

C19_Witness ==
    /\ wr.kind = "atomic" /\ wr.pc = "done"
    /\ wr.raised /\ wr.temp = "unlinked"
    /\ wr.written # <<>>
    /\ target["atomic"] # None /\ target["atomic"][1] # wr.content

\* C20: once QUIT is broadcast, web_scraper, queue_stuffer, big_brother,
\* slave_driver, build_catcher and index_scribbler each leave their loop in
\* the end, whatever the state at the broadcast, paused set and builds
\* queue full included.
C20_AllTerminate ==
    (main = "quit")
        ~> (/\ Terminated(sd) /\ Terminated(bc)
            /\ \A k \in Tasks : task[k] = "done")

\* The threads joined are the first of the join order, which is the start
\* order reversed; joins come after the broadcast and the close after the
\* last join
C21_Joined ==
    /\ \A i \in 1..Len(JoinOrder) : JoinOrder[i] = StartOrder[Len(StartOrder) + 1 - i]
    /\ fin.joined = SubSeq(JoinOrder, 1, Len(fin.joined))
    /\ fin.joined # <<>> => main = "quit"
    /\ fin.closed => fin.joined = JoinOrder

\* The order of the steps: the loop over the slaves is left with every
\* SlaveState of the map terminated; QUIT is broadcast after that loop, with
\* the map empty or five waits made, and before any join; the joins go one
\* by one through the join order, each after its thread has ended; the
\* close follows the last join
C21_Step ==
    /\ (main' = "draining" /\ main # "draining")
       => /\ main = "killing"
          /\ \A a \in DOMAIN slaves' : slaves'[a].terminated
    /\ (main' = "quit" /\ main # "quit")
       => /\ main = "draining"
          /\ slaves = <<>> \/ fin.waits = Waits
          /\ fin.joined = <<>>
    /\ fin'.joined # fin.joined
       => /\ main = "quit" /\ ~fin.closed
          /\ fin'.joined = SubSeq(JoinOrder, 1, Len(fin.joined) + 1)
          /\ ThreadEnded(JoinOrder[Len(fin'.joined)])
    /\ (fin'.closed /\ ~fin.closed) => fin.joined = JoinOrder

\* C21: shutdown goes in a fixed order: every SlaveState of the map is
\* marked terminated; QUIT is broadcast once the map is empty or five waits
\* of a second have passed; the threads are joined after the broadcast in
\* reverse start order; the sockets are closed after the last join.
C21_ShutdownOrder == []C21_Joined /\ [][C21_Step]_vars

C21_Witness ==
    /\ fin.closed /\ fin.waits = Waits
    /\ \E a \in DOMAIN slaves : slaves[a].terminated

\* C22: after slave_driver has handled a message, a SlaveState of the map
\* has a transfer only if it has a build and the status of that build is
\* true.
C22_TransferHasBuild ==
    \A a \in DOMAIN slaves :
        slaves[a].transfer # 0
            => slaves[a].build # None /\ slaves[a].build[1].status

C22_Witness ==
    /\ last.task = "slave_driver" /\ last.tag = "SENT" /\ sd = "running"
    /\ \E a \in DOMAIN slaves :
          /\ a = last.address
          /\ slaves[a].transfer # 0
          /\ slaves[a].reply.tag = "SEND"

\* The transfer of every SlaveState of the map is a TransferState on which
\* verify() has not run
C23_Unverified ==
    \A a \in DOMAIN slaves :
        slaves[a].transfer # 0
            => /\ heap[slaves[a].transfer] # None
               /\ heap[slaves[a].transfer][1].path = "temp"

\* The step takes the TransferState of the SlaveState at address a away from
\* it: the SlaveState is removed, or a reply SEND or DONE is set on it
C23_Discards(a) ==
    /\ slaves[a].transfer # 0
    /\ last'.task = "slave_driver" /\ last'.address = a
    /\ \/ a \notin DOMAIN slaves'
       \/ /\ slaveOut' # <<>>
          /\ slaveOut'[1].reply.tag \in {"SEND", "DONE"}

\* C23: verify() runs once on every TransferState: a TransferState is taken
\* from its SlaveState, by a later SEND, by DONE or with the SlaveState on
\* BYE, only in the handling of SENT, which has run verify() on it, and
\* verify() has not run on a TransferState that a SlaveState has.
C23_ResolvedOnce ==
    /\ []C23_Unverified
    /\ [][\A a \in DOMAIN slaves : C23_Discards(a) => last'.tag = "SENT"]_vars

\* C24: when the write of write_root_index or write_package_index raises,
\* the temporary file is unlinked and index.html is left as it was.
C24_ErrorCleansUp ==
    [][(wr.kind = "index" /\ wr.exc /\ wr'.pc = "done")
          => /\ wr'.raised
             /\ wr'.temp = "unlinked"
             /\ target' = target]_vars

\* The step is build_catcher's handling of HELLO from an address that has a
\* transfer
C25_HelloAgain ==
    /\ last'.task = "build_catcher" /\ last'.tag = "HELLO" /\ last'.known
    /\ transfers["a1"] # 0

C26_HelloDropped ==
    [][(/\ last'.task = "build_catcher" /\ last'.tag = "HELLO" /\ ~last'.known
        /\ \A a \in DOMAIN slaves : slaves[a].transfer = 0)
          => /\ transfers' = transfers
             /\ fileOut' = <<>>
             /\ bc' = "running"]_vars

\* The worker has said HELLO again for its transfer
C27_HelloAgain ==
    /\ last.task = "build_catcher" /\ last.tag = "HELLO" /\ last.known

\* The transfer is complete: nothing is missing, DONE has just been sent
\* and the address is out of the transfer map
C27_Done ==
    /\ "a1" \notin DOMAIN transfers
    /\ fileOut = <<Frame("DONE", 0, 0)>>
    /\ done(heap[slaves["a1"].transfer][1])

\* C27: when all FETCH frames of a transfer were lost and the worker has
\* said HELLO again, and the worker then answers every FETCH with the
\* matching CHUNK, the transfer gets complete: nothing is missing, DONE is
\* sent and the address is removed from the transfer map.
C27_Recovers == C27_HelloAgain ~> C27_Done

C27_Witness ==
    /\ C27_Done /\ last.tag = "CHUNK"
    /\ heap[slaves["a1"].transfer][1].filesize = (pipeline_size + 1) * chunk_size

\* The step is build_catcher's handling of a message of the transfer of a
\* file of two chunks
C28_TwoChunks ==
    /\ last'.task = "build_catcher"
    /\ "a1" \in DOMAIN slaves /\ slaves["a1"].transfer # 0
    /\ heap[slaves["a1"].transfer][1].filesize = 2 * chunk_size

\* C28: in the transfer without loss of a file of 2 * chunk_size bytes the
\* frames sent on HELLO are FETCH(0, chunk_size) and FETCH(chunk_size,
\* chunk_size); no FETCH is sent on a CHUNK, and DONE is sent on the CHUNK
\* that completes the file.
C28_TwoFetches ==
    [][C28_TwoChunks
         => /\ (last'.tag = "HELLO" /\ ~last'.known)
               => fileOut' = <<Frame("FETCH", 0, chunk_size),
                               Frame("FETCH", chunk_size, chunk_size)>>
            /\ (last'.tag = "CHUNK" /\ last'.known)
               => /\ FetchFrames(fileOut') = <<>>
                  /\ done(heap'[slaves["a1"].transfer][1])
                     => fileOut' = <<Frame("DONE", 0, 0)>>]_vars

\* ------------------------------------- index_scribbler's known packages
\* The names of the packages that index_scribbler hears of
ScribblerPackages == {"foo", "bar", "baz"}

\* The set that index_scribbler starts with: iterdir() gives a Path object
\* for each directory under the output path
SeedPackages(dirs) == {<<"path", d>> : d \in dirs}

\* The directories under the output path when index_scribbler started
SeedDirs == {p[2] : p \in {q \in packages : q[1] = "path"}}

\* The package names that index_scribbler has received and added
Received == {p[2] : p \in {q \in packages : q[1] = "str"}}

InitScribbler ==
    /\ slaves = <<>> /\ counter = 0 /\ paused = FALSE /\ reply = Unbound
    /\ sd = "running" /\ bc = "running" /\ main = "polling"
    /\ builds = <<>> /\ indexes = <<>>
    /\ heap = [t \in Tids |-> None] /\ transfers = <<>>
    /\ files = <<>>
    /\ packages \in {SeedPackages(dirs) : dirs \in SUBSET ScribblerPackages}
    /\ slaveOut = <<>> /\ statusOut = <<>> /\ dbOut = <<>>
    /\ fileOut = <<>> /\ indexOut = <<>>
    /\ last = NoMessage
    /\ unanswered = <<>>
    /\ wr = WriterIdle /\ target = [k \in Kinds |-> None]
    /\ task = [k \in Tasks |-> "poll"] /\ todo = [k \in Loops |-> 0]
    /\ fin = NoFin
    /\ package_cache = {}
    /\ ts = None /\ received = {} /\ op = NoOp

\* slave_driver: index_queue.send_string(slave.build.package) for a build
\* of the package; the queue holds the names until index_scribbler takes
\* them
index_queue_send(package) ==
    /\ main # "quit"
    /\ Len(indexes) < MaxIndexes
    /\ indexes' = Append(indexes, package)
    /\ indexOut' = <<>>
    /\ last' = NoMessage
    /\ slaveOut' = <<>> /\ statusOut' = <<>> /\ dbOut' = <<>> /\ fileOut' = <<>>
    /\ UNCHANGED <<slaves, counter, paused, reply, sd, builds, heap, transfers,
                   bc, files, packages, main, tsvars, unanswered, wvars, qvars>>

NextScribbler ==
    \/ (\E package \in ScribblerPackages : index_queue_send(package))
    \/ index_scribbler

SpecScribbler == InitScribbler /\ [][NextScribbler]_vars

\* The step is index_scribbler's handling of a message
C29_Message == indexes # <<>> /\ indexes' = Tail(indexes)

\* C29: index_scribbler rewrites the root index on a message exactly when
\* the package named is neither a directory that was under the output path
\* at startup nor a name received before, and it rewrites the index of the
\* package on every message.
C29_RootIffUnknown ==
    [][C29_Message
         => LET package == Head(indexes)
                known == package \in SeedDirs \cup Received
            IN  /\ (\E i \in DOMAIN indexOut' : indexOut'[i] = IndexWrite("root", "")) <=> ~known
                /\ indexOut'[Len(indexOut')] = IndexWrite("package", package)
                /\ Received' = Received \cup {package}
                /\ SeedDirs' = SeedDirs]_vars

\* ------------------------------------------------- TheScribe.handle_index
\* The names of the packages that TheScribe hears of
ScribePackages == {"foo", "bar", "baz", "qux"}

\* TheScribe.once: self.package_cache = self.db.get_all_packages()
InitScribe ==
    /\ slaves = <<>> /\ counter = 0 /\ paused = FALSE /\ reply = Unbound
    /\ sd = "running" /\ bc = "running" /\ main = "polling"
    /\ builds = <<>> /\ indexes = <<>>
    /\ heap = [t \in Tids |-> None] /\ transfers = <<>>
    /\ files = <<>> /\ packages = {}
    /\ slaveOut = <<>> /\ statusOut = <<>> /\ dbOut = <<>>
    /\ fileOut = <<>> /\ indexOut = <<>>
    /\ last = NoMessage
    /\ unanswered = <<>>
    /\ wr = WriterIdle /\ target = [k \in Kinds |-> None]
    /\ task = [k \in Tasks |-> "poll"] /\ todo = [k \in Loops |-> 0]
    /\ fin = NoFin
    /\ ts = None /\ received = {} /\ op = NoOp
    /\ package_cache \in SUBSET ScribePackages

\* (mutant) every package is taken as new
NewToCache_always(package, cache) == TRUE

\* handle_index: if package not in self.package_cache
NewToCache(package, cache) == package \notin cache

\* The files that handle_index writes for a message, in the order of its
\* calls of write_simple_index, write_package_index, write_project_page,
\* write_json_file, write_homepage, write_sitemap and write_search_index
ScribeWrites(msg, data, cache) ==
    CASE msg = "PKGBOTH" ->
           (IF NewToCache(data, cache)
            THEN <<IndexWrite("simple", "")>> ELSE <<>>)
           \o <<IndexWrite("package", data), IndexWrite("project", data),
                IndexWrite("json", data)>>
      [] msg = "PKGPROJ" ->
           <<IndexWrite("project", data), IndexWrite("json", data)>>
      [] msg = "HOME" -> <<IndexWrite("home", ""), IndexWrite("sitemap", "")>>
      [] msg = "SEARCH" -> <<IndexWrite("search", "")>>
      [] OTHER -> <<>>

\* TheScribe.handle_index for a message received; last holds the message,
\* with the package it names as the address
handle_index(msg, data) ==
    /\ package_cache' = IF msg = "PKGBOTH" /\ NewToCache(data, package_cache)
                        THEN package_cache \cup {data}
                        ELSE package_cache
    /\ indexOut' = ScribeWrites(msg, data, package_cache)
    /\ last' = [task |-> "the_scribe", address |-> data, tag |-> msg,
                known |-> TRUE]
    /\ slaveOut' = <<>> /\ statusOut' = <<>> /\ dbOut' = <<>> /\ fileOut' = <<>>
    /\ UNCHANGED <<slaves, counter, paused, reply, sd, builds, indexes, heap,
                   transfers, bc, files, packages, main, tsvars, unanswered,
                   wr, target, qvars>>

\* TheScribe.handle_index when queue.recv_msg() raises IOError: the error
\* is logged
handle_index_IOError ==
    /\ last' = [task |-> "the_scribe", address |-> "", tag |-> "IOError",
                known |-> FALSE]
    /\ indexOut' = <<>>
    /\ slaveOut' = <<>> /\ statusOut' = <<>> /\ dbOut' = <<>> /\ fileOut' = <<>>
    /\ UNCHANGED <<slaves, counter, paused, reply, sd, builds, indexes, heap,
                   transfers, bc, files, packages, main, tsvars, unanswered,
                   wvars, qvars>>

NextScribe ==
    \/ (\E msg \in {"PKGBOTH", "PKGPROJ"}, data \in ScribePackages :
            handle_index(msg, data))
    \/ (\E msg \in {"HOME", "SEARCH"} : handle_index(msg, ""))
    \/ handle_index_IOError

SpecScribe == InitScribe /\ [][NextScribe]_vars

\* The simple index is among the files that the step writes
C30_SimpleWritten ==
    \E i \in DOMAIN indexOut' : indexOut'[i] = IndexWrite("simple", "")

\* The files that the step writes, but for the simple index
C30_Others == SelectSeq(indexOut', LAMBDA w : w # IndexWrite("simple", ""))

\* What a step of TheScribe does for the message it handles
C30_Step ==
    LET package == last'.address IN
    /\ (last'.task = "the_scribe" /\ last'.tag = "PKGBOTH")
       => /\ C30_SimpleWritten <=> package \notin package_cache
          /\ C30_SimpleWritten => indexOut'[1] = IndexWrite("simple", "")
          /\ C30_Others = <<IndexWrite("package", package),
                            IndexWrite("project", package),
                            IndexWrite("json", package)>>
          /\ package_cache' = package_cache \cup {package}
    /\ (last'.task = "the_scribe" /\ last'.tag = "PKGPROJ")
       => /\ indexOut' = <<IndexWrite("project", package),
                           IndexWrite("json", package)>>
          /\ package_cache' = package_cache
    /\ package_cache \subseteq package_cache'

\* C30: on PKGBOTH handle_index rewrites the simple index exactly when the
\* package is not in package_cache, to which it is then added, and always
\* writes the package index, the project page and the JSON file, in that
\* order; on PKGPROJ it writes the project page and the JSON file only and
\* leaves package_cache alone; package_cache never loses an element.
C30_HandleIndex == [][C30_Step]_vars

C30_Witness ==
    /\ last.task = "the_scribe" /\ last.tag = "PKGBOTH"
    /\ last.address \in package_cache
    /\ Len(indexOut) = 3
    /\ package_cache # ScribePackages

\* ------------------------------------------------- a transfer sent again
\* The worker a1 reports builds of files of less than a chunk, of one chunk,
\* of three and of more chunks than the pipeline holds, and sends SENT
\* whether the file is complete or not; its peer on the file socket sends
\* HELLO and CHUNKs with the right bytes and with wrong ones.
ResendSizes == {Block, chunk_size, 3 * chunk_size, (pipeline_size + 1) * chunk_size}
ResendBuilt ==
    {[tag |-> "BUILT", package |-> "foo", version |-> "1.0", status |-> TRUE,
      filename |-> "w.whl", filesize |-> fs, filehash |-> sha256(<<1, 1>>)] :
        fs \in ResendSizes}
ResendMsgs ==
    {FileMsg("HELLO", 1, 0, <<>>)}
    \cup {FileMsg("CHUNK", 0, 0, d) : d \in {<<1, 1>>, <<0, 1>>}}

resend_recv ==
    \E m \in ResendMsgs : build_catcher("a1", m) /\ UNCHANGED unanswered

NextResend ==
    \/ (slave_driver("a1", Msg("HELLO")) /\ "a1" \notin DOMAIN slaves)
    \/ (\E m \in ResendBuilt : slave_driver("a1", m))
    \/ slave_driver("a1", Msg("SENT"))
    \/ resend_recv

SpecResend == Init /\ [][NextResend]_vars

\* The step is slave_driver's handling of SENT from a1 whose transfer holds
\* a file that does not have the digest of its build
C31_SentFails ==
    /\ last'.task = "slave_driver" /\ last'.tag = "SENT" /\ last'.address = "a1"
    /\ sd = "running"
    /\ "a1" \in DOMAIN slaves
    /\ slaves["a1"].transfer # 0 /\ slaves["a1"].build # None
    /\ heap[slaves["a1"].transfer][1].file = "open"
    /\ sha256(heap[slaves["a1"].transfer][1].content) # slaves["a1"].build[1].filehash

\* What the step leaves: SEND is sent, the slave keeps its build and has a
\* new TransferState of the same filesize, nothing received, offset 0 and
\* the initial credit; the file of the attempt that failed is unlinked and
\* the object is either gone or, when build_catcher still holds it,
\* another object than the new one; slave_driver runs on.
C31_Fresh ==
    LET old == slaves["a1"].transfer
        build == slaves["a1"].build[1]
        slave == slaves'["a1"]
        t == heap'[slave.transfer][1]
    IN
    /\ sd' = "running"
    /\ slaveOut' = <<[to |-> "a1", reply |-> SEND]>>
    /\ slave.build = Some(build) /\ slave.reply = SEND
    /\ slave.transfer # 0 /\ heap'[slave.transfer] # None
    /\ t.filesize = build.filesize
    /\ t.map = <<range(0, build.filesize)>>
    /\ t.offset = 0
    /\ t.credit = Max(1, Min(10, build.filesize \div 65536))
    /\ t.file = "open" /\ t.path = "temp"
    /\ \A i \in DOMAIN t.content : t.content[i] = 0
    /\ verify(heap[old][1], build).t.path = "unlinked"
    /\ IF \E a \in DOMAIN transfers : transfers[a] = old
       THEN /\ slave.transfer # old
            /\ heap'[old][1].path = "unlinked" /\ heap'[old][1].file = "closed"
       ELSE slave.transfer = old \/ heap'[old] = None
    /\ indexes' = indexes /\ files' = files

\* C31: when SENT arrives and the verification fails, SEND is replied and
\* the slave gets a new TransferState for the same build, with all of
\* [0, filesize) missing, offset 0 and credit max(1, min(10, filesize div
\* 65536)); the file of the failed attempt is unlinked, the build is kept,
\* and the state left is again one in which SENT is verified.
C31_SendAgain == [][C31_SentFails => C31_Fresh]_vars

C31_Witness ==
    /\ last.task = "slave_driver" /\ last.tag = "SENT"
    /\ "a1" \in DOMAIN slaves /\ slaves["a1"].reply = SEND
    /\ slaves["a1"].transfer # 0
    /\ heap[slaves["a1"].transfer][1].credit = pipeline_size
    /\ "a1" \in DOMAIN transfers /\ transfers["a1"] # slaves["a1"].transfer
    /\ transfers["a1"] # 0
    /\ heap[transfers["a1"]][1].path = "unlinked"
    /\ heap[transfers["a1"]][1].content # heap[slaves["a1"].transfer][1].content

\* ------------------------------------------- fetch() on files of any size
\* A TransferState for a file of no bytes, of one block and of four, on
\* which chunk, fetch and reset_credit are called in any order; a call of
\* fetch that does not return ends the calls.
FetchSizes == {0, Block, 4 * Block}

InitFetch ==
    /\ slaves = <<>> /\ counter = 0 /\ paused = FALSE /\ reply = Unbound
    /\ sd = "running" /\ bc = "running" /\ main = "polling"
    /\ builds = <<>> /\ indexes = <<>>
    /\ heap = [t \in Tids |-> None] /\ transfers = <<>>
    /\ files = <<>> /\ packages = {}
    /\ slaveOut = <<>> /\ statusOut = <<>> /\ dbOut = <<>>
    /\ fileOut = <<>> /\ indexOut = <<>>
    /\ last = NoMessage
    /\ unanswered = <<>>
    /\ wr = WriterIdle /\ target = [k \in Kinds |-> None]
    /\ task = [k \in Tasks |-> "poll"] /\ todo = [k \in Loops |-> 0]
    /\ fin = NoFin
    /\ package_cache = {}
    /\ ts \in {TransferState(filesize) : filesize \in FetchSizes}
    /\ received = {}
    /\ op = NoOp

\* ts.fetch() when the while loop of fetch() has no exit: the credit is
\* taken and the call does not return
ts_fetch_hang ==
    /\ ts # None /\ op.name # "fetch_hang"
    /\ fetch(ts).hang
    /\ ts' = fetch(ts).t
    /\ op' = [name |-> "fetch_hang", offset |-> 0, data |-> <<>>,
              build |-> None, result |-> None, again |-> FALSE]
    /\ UNCHANGED <<received, files, mvars, wvars>>

NextFetch ==
    \/ (\E offset \in ChunkOffsets, data \in ChunkData :
            op.name # "fetch_hang" /\ ts_chunk(offset, data))
    \/ (op.name # "fetch_hang" /\ ts_fetch)
    \/ (op.name # "fetch_hang" /\ ts_reset_credit)
    \/ ts_fetch_hang

SpecFetch == InitFetch /\ [][NextFetch]_vars

\* No byte of [0, filesize) is missing from the file of t, of which the
\* blocks rcv have been written
C32_NoneMissing(t, rcv) == Cardinality(rcv) * Block = t.filesize

\* The step is a call of fetch()
C32_Call ==
    /\ op'.name \in {"fetch", "fetch_hang"}
    /\ ts'.credit # ts.credit \/ op' # op

\* C32: fetch() returns for a file of any size, 0 included: nothing when the
\* credit is zero or no byte is missing, else one range, with the credit
\* one less; and done holds exactly when no byte of [0, filesize) is
\* missing, before and after every call.
C32_FetchTerminates ==
    [][/\ done(ts) <=> C32_NoneMissing(ts, received)
       /\ done(ts') <=> C32_NoneMissing(ts', received')
       /\ C32_Call
          => /\ op'.name = "fetch"
             /\ op'.result = None
                <=> (ts.credit = 0 \/ C32_NoneMissing(ts, received))
             /\ op'.result # None => ts'.credit = ts.credit - 1]_vars

\* The step is slave_driver's handling of SENT from the slave at address a,
\* which has a TransferState: verify() is called on it
C33_Verifies(a) ==
    /\ Handled("SENT") /\ last'.address = a
    /\ sd = "running"
    /\ a \in DOMAIN slaves /\ slaves[a].transfer # 0

\* C33: slave_driver calls verify(), and so replies DONE to SENT and puts
\* the package on the indexes queue, only on a TransferState that has no
\* missing range and that build_catcher no longer has in its transfer map,
\* whatever the order of the messages on the two sockets.
C33_VerifyWhenComplete ==
    [][\A a \in Addresses :
          C33_Verifies(a)
          => /\ done(heap[slaves[a].transfer][1])
             /\ \A b \in DOMAIN transfers : transfers[b] # slaves[a].transfer]_vars

====
